---- MODULE Spec2Model ----
(***************************************************************************)
(* A model of the dynapcnn backend of sinabs: the deployment calls of      *)
(* DynapcnnNetworkGraph (to, make_config, _make_config), the hardware      *)
(* layer builder DynapcnnLayer, and the helpers of backend/dynapcnn/utils  *)
(* (pooling consolidation, construction of the next dynapcnn layer).       *)
(*                                                                         *)
(* Each part has its own specification over the shared variables:          *)
(*   Spec       the deployment calls on a compiled network                 *)
(*   SpecLayer  DynapcnnLayer.__init__ on one group of nodes               *)
(*   SpecPool   construct_next_pooling_layer / construct_next_dynapcnn_layer*)
(*   SpecShape  DynapcnnLayer.get_conv_output_shape                        *)
(*   SpecBuild  SpecLayer and SpecPool together: every way to build a layer *)
(*   SpecGraph  get_sinabs_edges_and_modules on a traced graph              *)
(*   SpecSpike  ThresholdSubtract.forward on one neuron                     *)
(***************************************************************************)
EXTENDS Integers, Sequences, FiniteSets, TLC

VARIABLES
    dynapcnn_layers,  \* self.dynapcnn_layers: per layer destinations, core_idx, dvs
    input_shape,      \* self.input_shape
    samna_config,     \* configuration applied to the device by to(): <<>> or <<config>>
    call,             \* the last deployment call: arguments, events, outcome
    dcnnl_data,       \* the group handed to DynapcnnLayer: nodes with layer and shapes
    build_args,       \* discretize, rescale_weights
    dynapcnn_layer,   \* the DynapcnnLayer that was built, or the error raised
    modified_node,    \* get_modified_node_it's answer: <<>> or <<node, output_shape>>
    layers,           \* the list handed to the helpers of utils.py
    pool_result,      \* what the helper returned or raised
    conv_query,       \* a convolution and an input shape
    conv_shape,       \* get_conv_output_shape's answer: <<>> or <<shape>>
    graph_tracer,     \* self.graph_tracer: modules_map and edges of the traced graph
    sinabs_graph,     \* what get_sinabs_edges_and_modules returned: <<>> or <<result>>
    spike_query,      \* membrane potential and threshold of one neuron
    spike_count       \* ThresholdSubtract.forward's answer: <<>> or <<spikes>>

deploy_vars == <<dynapcnn_layers, input_shape, samna_config, call>>
layer_vars  == <<dcnnl_data, build_args, dynapcnn_layer, modified_node>>
pool_vars   == <<layers, pool_result>>
shape_vars  == <<conv_query, conv_shape>>
graph_vars  == <<graph_tracer, sinabs_graph>>
spike_vars  == <<spike_query, spike_count>>
vars == <<dynapcnn_layers, input_shape, samna_config, call, dcnnl_data, build_args,
          dynapcnn_layer, modified_node, layers, pool_result, conv_query, conv_shape,
          graph_tracer, sinabs_graph, spike_query, spike_count>>

(***************************************************************************)
(* Bounds of the model.                                                    *)
(***************************************************************************)
MaxLayers == 2
NumCores == 3

\* core_idx of a layer no mapper has placed yet
Unset == 0 - 1

Range(s) == {s[i] : i \in DOMAIN s}
IsInjective(s) == \A i, j \in DOMAIN s : s[i] = s[j] => i = j
SeqsUpTo(S, n) == UNION {[1..k -> S] : k \in 0..n}

(***************************************************************************)
(* The parts that are idle under a specification keep these values. A part *)
(* whose call is still to be made has <<>> for its result; an idle part    *)
(* has a result marked "idle", so that none of its calls is made.          *)
(***************************************************************************)
DeployIdle == /\ dynapcnn_layers = <<>>
              /\ input_shape = <<>>
              /\ samna_config = <<>>
              /\ call = <<>>
LayerIdle == /\ dcnnl_data = <<>>
             /\ build_args = <<>>
             /\ dynapcnn_layer = <<[raised |-> "idle", steps |-> <<>>, conv_layer |-> <<>>,
                                    spk_layer |-> <<>>, pool_layer |-> <<>>,
                                    lin_to_conv_conversion |-> FALSE, spk_node_id |-> 0]>>
             /\ modified_node = <<>>
PoolIdle == /\ layers = <<>>
            /\ pool_result = <<[op |-> "idle"]>>
ShapeIdle == /\ conv_query = <<>>
             /\ conv_shape = <<>>
GraphIdle == /\ graph_tracer = <<>>
             /\ sinabs_graph = <<>>
SpikeIdle == /\ spike_query = <<>>
             /\ spike_count = <<>>

(***************************************************************************)
(* DynapcnnNetworkGraph: the deployment calls.                             *)
(*                                                                         *)
(* dynapcnn_layers is the sequence of the compiled layers in the order of  *)
(* the dictionary; layer i of the model is element i+1. Each holds the set *)
(* of its destinations, its core_idx and whether it is a DVSLayer.         *)
(***************************************************************************)

\* chip_layers_ordering is "auto" or a list of core indices. The lists tried for a
\* network of n layers: one entry per layer with the cores in rising or falling
\* order from either end of the chip, one core repeated, and one entry short.
AutoOrdering == [auto |-> TRUE, list |-> <<>>]
ExplicitOrdering(l) == [auto |-> FALSE, list |-> l]
ExplicitLists(n) ==
    {[i \in 1..n |-> i - 1], [i \in 1..n |-> n - i], [i \in 1..n |-> NumCores - i],
     [i \in 1..n |-> 0], [i \in 1..(n - 1) |-> i - 1]}
Orderings(n) == {AutoOrdering} \cup {ExplicitOrdering(l) : l \in ExplicitLists(n)}

\* monitor_layers is None, "all" or a list of layer indices that may hold "dvs"
MonitorNone == [kind |-> "None", idx |-> <<>>, dvs |-> FALSE]
MonitorAll == [kind |-> "all", idx |-> <<>>, dvs |-> FALSE]
MonitorList(idx, dvs) == [kind |-> "list", idx |-> idx, dvs |-> dvs]
MonitorArgs == {MonitorNone, MonitorAll, MonitorList(<<0>>, FALSE), MonitorList(<<>>, TRUE)}

\* config_modifier is None, or a function of the caller: one that returns a
\* new configuration object, or one that makes the configuration invalid
Modifiers == {"None", "new", "break"}

\* the device argument of to(): a torch.device, the name of a supported chip,
\* another string, or a value of another type
Devices == {"torch", "chip", "cpu", "bad"}

\* Python's truth value of monitor_layers
Truthy(monitor_layers) ==
    \/ monitor_layers.kind = "all"
    \/ monitor_layers.kind = "list" /\ (monitor_layers.idx # <<>> \/ monitor_layers.dvs)

\* "dvs" in monitor_layers: membership in a list, a substring of the string "all"
DvsIn(monitor_layers) == monitor_layers.kind = "list" /\ monitor_layers.dvs

\* the number of layers one layer of the chip can send its output to
MaxFanout == 2

\* config_builder.get_valid_mapping(self): the mappings the automatic search may
\* return, each placing the layers in their order on consecutive cores, every
\* layer on a core of its own; none when the layers outnumber the cores or a
\* layer has more destinations than the chip allows, and the search raises
get_valid_mapping(dl) ==
    {m \in [DOMAIN dl -> 0..(NumCores - 1)] :
        /\ IsInjective(m)
        /\ \A i \in DOMAIN dl : i > 1 => m[i] = m[i - 1] + 1
        /\ \A i \in DOMAIN dl : Cardinality(dl[i].destinations) <= MaxFanout}

\* what the search sets: the core_idx of every layer
AssignCores(dl, m) == [i \in DOMAIN dl |-> [dl[i] EXCEPT !.core_idx = m[i]]]

\* config_builder.build_config(self, None): each layer is written to the core its
\* core_idx names
build_config(dl) ==
    [id |-> 1,
     cores |-> [i \in DOMAIN dl |-> dl[i].core_idx],
     fanout |-> [i \in DOMAIN dl |-> Cardinality(dl[i].destinations)],
     merge |-> FALSE,
     monitored |-> <<>>,
     monitor_dvs |-> FALSE,
     user_ok |-> TRUE]

\* config_builder.validate_configuration(config): every layer on a core of the
\* chip, no core used twice, no layer with more destinations than the chip
\* allows, and nothing the user's modifier broke
validate_configuration(config) ==
    /\ config.user_ok
    /\ \A i \in DOMAIN config.cores : config.cores[i] \in 0..(NumCores - 1)
    /\ IsInjective(config.cores)
    /\ \A i \in DOMAIN config.fanout : config.fanout[i] <= MaxFanout

\* the caller's config_modifier
ApplyModifier(config_modifier, config) ==
    CASE config_modifier = "new" -> [config EXCEPT !.id = config.id + 1]
      [] config_modifier = "break" -> [config EXCEPT !.user_ok = FALSE]
      [] OTHER -> config

\* the layers without destinations, in the order of the dictionary
Sinks(dl) == SelectSeq([i \in DOMAIN dl |-> i], LAMBDA i : Cardinality(dl[i].destinations) = 0)

\* monitor_chip_layers with "all" handled like None: the first layer without
\* destinations only
MonitorChipLayersSinkOnly(dl, monitor_layers) ==
    CASE monitor_layers.kind \in {"None", "all"} ->
             IF Sinks(dl) = <<>> THEN <<>> ELSE <<dl[Head(Sinks(dl))].core_idx>>
      [] OTHER -> <<>>

\* _make_config, lines 326-339: the list monitor_chip_layers
MonitorChipLayers(dl, monitor_layers) ==
    CASE monitor_layers.kind = "None" ->
             IF Sinks(dl) = <<>> THEN <<>> ELSE <<dl[Head(Sinks(dl))].core_idx>>
      [] monitor_layers.kind = "all" ->
             LET keep == SelectSeq([i \in DOMAIN dl |-> i], LAMBDA i : ~dl[i].dvs)
             IN  [k \in DOMAIN keep |-> dl[keep[k]].core_idx]
      [] OTHER -> <<>>

\* _make_config validating the configuration before the caller's modifier is
\* applied to it
AssembleConfigValidatesFirst(dl1, in_shape, chip_layers_ordering, monitor_layers, config_modifier) ==
    LET c0 == build_config(dl1)
        c1 == IF in_shape # <<>> /\ in_shape[1] = 1 THEN [c0 EXCEPT !.merge = TRUE] ELSE c0
        c2 == [c1 EXCEPT !.monitored = MonitorChipLayers(dl1, monitor_layers),
                         !.monitor_dvs = Truthy(monitor_layers) /\ DvsIn(monitor_layers)]
        c3 == IF config_modifier # "None" THEN ApplyModifier(config_modifier, c2) ELSE c2
    IN  [raised |-> "",
         layers |-> dl1,
         config |-> c3,
         is_compatible |-> validate_configuration(c2),
         events |-> (IF chip_layers_ordering.auto THEN <<"get_valid_mapping">> ELSE <<>>)
                    \o <<"build_config", "merge", "monitor_layers", "validate_configuration">>
                    \o (IF config_modifier # "None" THEN <<"config_modifier">> ELSE <<>>)]

\* _make_config, lines 321-346: from build_config on, the layers being dl1
AssembleConfig(dl1, in_shape, chip_layers_ordering, monitor_layers, config_modifier) ==
    LET c0 == build_config(dl1)
        c1 == IF in_shape # <<>> /\ in_shape[1] = 1 THEN [c0 EXCEPT !.merge = TRUE] ELSE c0
        c2 == [c1 EXCEPT !.monitored = MonitorChipLayers(dl1, monitor_layers),
                         !.monitor_dvs = Truthy(monitor_layers) /\ DvsIn(monitor_layers)]
        c3 == IF config_modifier # "None" THEN ApplyModifier(config_modifier, c2) ELSE c2
    IN  [raised |-> "",
         layers |-> dl1,
         config |-> c3,
         is_compatible |-> validate_configuration(c3),
         events |-> (IF chip_layers_ordering.auto THEN <<"get_valid_mapping">> ELSE <<>>)
                    \o <<"build_config", "merge", "monitor_layers">>
                    \o (IF config_modifier # "None" THEN <<"config_modifier">> ELSE <<>>)
                    \o <<"validate_configuration">>]

\* _make_config going on to build_config when the search found no mapping
MakeConfigIgnoresMappingError(dl, in_shape, chip_layers_ordering, monitor_layers, config_modifier, mapping) ==
    AssembleConfig(IF chip_layers_ordering.auto /\ mapping # <<>>
                   THEN AssignCores(dl, mapping) ELSE dl,
                   in_shape, chip_layers_ordering, monitor_layers, config_modifier)

\* _make_config: `mapping` is what get_valid_mapping returns when it is called
\* (<<>> when it raises, and the exception leaves _make_config at line 315).
\* The explicit ordering is compared with "auto" and not read again:
\* build_config is handed None.
_make_config(dl, in_shape, chip_layers_ordering, monitor_layers, config_modifier, mapping) ==
    IF chip_layers_ordering.auto /\ mapping = <<>>
    THEN [raised |-> "MappingError", layers |-> dl, config |-> build_config(dl),
          is_compatible |-> FALSE, events |-> <<"get_valid_mapping">>]
    ELSE AssembleConfig(IF chip_layers_ordering.auto THEN AssignCores(dl, mapping) ELSE dl,
                        in_shape, chip_layers_ordering, monitor_layers, config_modifier)

\* make_config, lines 248-259: the configuration is returned when _make_config
\* reports it compatible, and ValueError is raised otherwise
MakeConfigReturnsInvalid(r) ==
    IF r.raised # "" THEN [outcome |-> r.raised, config |-> <<>>]
    ELSE [outcome |-> "returned", config |-> <<r.config>>]

make_config(r) ==
    IF r.raised # "" THEN [outcome |-> r.raised, config |-> <<>>]
    ELSE IF r.is_compatible THEN [outcome |-> "returned", config |-> <<r.config>>]
    ELSE [outcome |-> "ValueError", config |-> <<>>]

\* the mappings to try: the automatic search is run in "auto" mode only
MappingChoices(dl, chip_layers_ordering) ==
    IF chip_layers_ordering.auto /\ get_valid_mapping(dl) # {}
    THEN get_valid_mapping(dl) ELSE {<<>>}

\* a network of n layers whose layer i feeds the layers dest[i]
Network(n, dest) ==
    [i \in 1..n |-> [destinations |-> dest[i], core_idx |-> Unset, dvs |-> FALSE]]

\* a first layer feeding two output layers
TwoHeaded == Network(3, <<{2, 3}, {}, {}>>)
\* a first layer feeding more layers than the chip allows
FanOutNetwork ==
    Network(MaxFanout + 2, [i \in 1..(MaxFanout + 2) |->
                               IF i = 1 THEN 2..(MaxFanout + 2) ELSE {}])
\* a chain of one layer more than the chip has cores
LongNetwork ==
    Network(NumCores + 1, [i \in 1..(NumCores + 1) |->
                              IF i <= NumCores THEN {i + 1} ELSE {}])

\* the compiled networks: up to MaxLayers layers, each feeding later layers, and
\* the three networks above; no DVS layer (__init__ sets dvs_input to False)
\* and no core assigned yet
Networks ==
    UNION {{dl \in [1..n -> [destinations : SUBSET (1..n), core_idx : {Unset}, dvs : {FALSE}]] :
               \A i \in 1..n : \A d \in dl[i].destinations : d > i}
           : n \in 1..MaxLayers}
    \cup {TwoHeaded, FanOutNetwork, LongNetwork}

InputShapes == {<<1, 2, 2>>, <<2, 2, 2>>}

NoCall == [op |-> "none", device |-> "", chip_layers_ordering |-> AutoOrdering,
           monitor_layers |-> MonitorNone, config_modifier |-> "None",
           outcome |-> "", config |-> <<>>, validated |-> <<>>, events |-> <<>>]

InitDeploy ==
    /\ dynapcnn_layers \in Networks
    /\ input_shape \in InputShapes
    /\ samna_config = <<>>
    /\ call = NoCall

\* the record of a call
CallRecord(op, device, o, ml, cm, outcome, config, r) ==
    [op |-> op, device |-> device, chip_layers_ordering |-> o, monitor_layers |-> ml,
     config_modifier |-> cm, outcome |-> outcome, config |-> config,
     validated |-> IF r.raised = "" /\ r.is_compatible THEN <<r.config>> ELSE <<>>,
     events |-> r.events \o (IF outcome = "deployed"
                             THEN <<"open_device", "apply_configuration">> ELSE <<>>)]

\* model.make_config(chip_layers_ordering, device, monitor_layers, config_modifier)
MakeConfig(o, ml, cm) ==
    \E m \in MappingChoices(dynapcnn_layers, o) :
      \E r \in {_make_config(dynapcnn_layers, input_shape, o, ml, cm, m)} :
        \E out \in {make_config(r)} :
            /\ dynapcnn_layers' = r.layers
            /\ call' = CallRecord("make_config", "chip", o, ml, cm, out.outcome, out.config, r)
            /\ UNCHANGED <<input_shape, samna_config>>

\* model.to(device, chip_layers_ordering, monitor_layers, config_modifier) for the
\* name of a supported chip: lines 151-192
ToChip(o, ml, cm) ==
    \E m \in MappingChoices(dynapcnn_layers, o) :
      \E r \in {_make_config(dynapcnn_layers, input_shape, o, ml, cm, m)} :
        \E out \in {make_config(r)} :
            /\ dynapcnn_layers' = r.layers
            /\ samna_config' = IF out.outcome = "returned" THEN out.config ELSE samna_config
            /\ call' = CallRecord("to", "chip", o, ml, cm,
                                  IF out.outcome = "returned" THEN "deployed" ELSE out.outcome,
                                  out.config, r)
            /\ UNCHANGED input_shape

\* model.to(device) for a torch.device or another string (lines 143-144, 194-195),
\* and for a value that is neither (line 198); the options are not read
ToOther(device) ==
    /\ device # "chip"
    /\ call' = [NoCall EXCEPT !.op = "to", !.device = device,
                              !.outcome = IF device = "bad" THEN "Exception" ELSE "moved"]
    /\ UNCHANGED <<dynapcnn_layers, input_shape, samna_config>>

\* the options of a call: the ordering with either the monitors or the modifier
CallArgs(n) ==
    {a \in Orderings(n) \X MonitorArgs \X Modifiers : a[2] = MonitorNone \/ a[3] = "None"}

MakeConfigCall ==
    /\ \E a \in CallArgs(Len(dynapcnn_layers)) : MakeConfig(a[1], a[2], a[3])
    /\ UNCHANGED <<layer_vars, pool_vars, shape_vars,
                 graph_vars, spike_vars>>

ToChipCall ==
    /\ \E a \in CallArgs(Len(dynapcnn_layers)) : ToChip(a[1], a[2], a[3])
    /\ UNCHANGED <<layer_vars, pool_vars, shape_vars,
                 graph_vars, spike_vars>>

ToOtherCall ==
    /\ \E d \in Devices : ToOther(d)
    /\ UNCHANGED <<layer_vars, pool_vars, shape_vars,
                 graph_vars, spike_vars>>

Init == InitDeploy /\ LayerIdle /\ PoolIdle /\ ShapeIdle
        /\ GraphIdle /\ SpikeIdle
Next == MakeConfigCall \/ ToChipCall \/ ToOtherCall
Spec == Init /\ [][Next]_vars

(***************************************************************************)
(* Claims about the deployment calls, checked under Spec.                  *)
(***************************************************************************)
Succeeded == call.outcome \in {"returned", "deployed"}

\* an explicit ordering as the documentation asks for it: one entry per layer,
\* every entry a core of the chip, no core twice
WellFormedList(l) ==
    /\ Len(l) = Len(dynapcnn_layers)
    /\ \A i \in DOMAIN l : l[i] \in 0..(NumCores - 1)
    /\ IsInjective(l)

\* some event a happens before some event b
Before(events, a, b) ==
    \E i, j \in DOMAIN events : i < j /\ events[i] = a /\ events[j] = b

\* C1: after a make_config or to call with an explicit chip_layers_ordering has
\* succeeded, layer i of the model is on the core that entry i of the list names:
\* the core_idx recorded for the layer and the core used in the configuration
\* both equal ordering[i].
C1_ExplicitOrderingPlacesLayers ==
    (/\ Succeeded
     /\ ~call.chip_layers_ordering.auto
     /\ WellFormedList(call.chip_layers_ordering.list))
    => \A i \in DOMAIN dynapcnn_layers :
          /\ dynapcnn_layers[i].core_idx = call.chip_layers_ordering.list[i]
          /\ call.config[1].cores[i] = call.chip_layers_ordering.list[i]

\* C2: no configuration is emitted that has not passed validation. A call hands
\* out a configuration exactly when it succeeded, that configuration is the
\* object the validator accepted, a call that did not succeed hands out nothing,
\* and to() applies a configuration only after validate_configuration, so the
\* configuration on the device is always one the validator accepted.
C2_OnlyValidatedConfigEmitted ==
    /\ Succeeded <=> call.config # <<>>
    /\ Succeeded => /\ call.validated = call.config
                    /\ validate_configuration(call.config[1])
                    /\ "validate_configuration" = call.events[
                           IF call.outcome = "deployed" THEN Len(call.events) - 2
                           ELSE Len(call.events)]
    /\ \A i \in DOMAIN call.events :
          call.events[i] \in {"open_device", "apply_configuration"}
              => /\ call.outcome = "deployed"
                 /\ Before(call.events, "validate_configuration", call.events[i])
    /\ call.outcome = "deployed" => samna_config = call.config
    /\ samna_config # <<>> => validate_configuration(samna_config[1])

\* C2's case: to() has deployed a configuration that the caller's modifier
\* replaced by a new object, and it is that object that was validated and applied.
C2_Witness ==
    /\ call.op = "to"
    /\ call.outcome = "deployed"
    /\ call.config_modifier = "new"
    /\ samna_config = call.validated
    /\ samna_config[1].id = 2

(***************************************************************************)
(* DynapcnnLayer.get_conv_output_shape, checked under SpecShape.           *)
(***************************************************************************)
MaxKernel == 3
MaxStride == 2
MaxPad == 1
MaxDim == 2

\* Python's // on integers: the floor of the quotient
FloorDiv(a, b) == a \div b

\* both axes computed from the parameters of the height
ConvOutputShapeFromHeight(conv_layer, in_shape) ==
    LET out_height == FloorDiv(in_shape[2] + 2 * conv_layer.padding[1]
                               - conv_layer.dilation[1] * (conv_layer.kernel_size[1] - 1) - 1,
                               conv_layer.stride[1]) + 1
        out_width == FloorDiv(in_shape[3] + 2 * conv_layer.padding[1]
                              - conv_layer.dilation[1] * (conv_layer.kernel_size[1] - 1) - 1,
                              conv_layer.stride[1]) + 1
    IN  <<conv_layer.out_channels, out_height, out_width>>

\* get_conv_output_shape(conv_layer, input_shape), lines 202-214
get_conv_output_shape(conv_layer, in_shape) ==
    LET out_height == FloorDiv(in_shape[2] + 2 * conv_layer.padding[1]
                               - conv_layer.dilation[1] * (conv_layer.kernel_size[1] - 1) - 1,
                               conv_layer.stride[1]) + 1
        out_width == FloorDiv(in_shape[3] + 2 * conv_layer.padding[2]
                              - conv_layer.dilation[2] * (conv_layer.kernel_size[2] - 1) - 1,
                              conv_layer.stride[2]) + 1
    IN  <<conv_layer.out_channels, out_height, out_width>>

\* the input sizes of an axis: the small ones and the 32 of the example
Dims == (1..MaxDim) \cup {32}
OutChannels == {1, 4}

\* the parameters of one axis: kernel, stride, padding, dilation, input size
AxisParams == (1..MaxKernel) \X (1..MaxStride) \X (0..MaxPad) \X (1..MaxStride) \X Dims

ConvQuery(oc, h, w) ==
    [conv |-> [out_channels |-> oc,
               kernel_size |-> <<h[1], w[1]>>,
               stride |-> <<h[2], w[2]>>,
               padding |-> <<h[3], w[3]>>,
               dilation |-> <<h[4], w[4]>>],
     input_shape |-> <<3, h[5], w[5]>>]

ShapeArgs ==
    /\ conv_query \in {ConvQuery(oc, h, w) : oc \in OutChannels, h \in AxisParams, w \in AxisParams}
    /\ conv_shape = <<>>

GetConvOutputShape ==
    /\ conv_shape = <<>>
    /\ conv_shape' = <<get_conv_output_shape(conv_query.conv, conv_query.input_shape)>>
    /\ UNCHANGED <<conv_query, deploy_vars, layer_vars, pool_vars,
                 graph_vars, spike_vars>>

InitShape == ShapeArgs /\ DeployIdle /\ LayerIdle /\ PoolIdle
             /\ GraphIdle /\ SpikeIdle

SpecShape == InitShape /\ [][GetConvOutputShape]_vars

\* q is the floor of num / s
IsFloorOf(q, num, s) == s * q <= num /\ num < s * (q + 1)

\* C3: for every kernel, stride, padding and dilation given per axis and every
\* input shape (C, H, W), get_conv_output_shape returns the output channels of
\* the convolution, floor((H + 2 p_h - d_h (k_h - 1) - 1) / s_h) + 1 and
\* floor((W + 2 p_w - d_w (k_w - 1) - 1) / s_w) + 1, each axis from its own
\* parameters; input (3, 32, 32), kernel 3, stride 1, padding 0 gives 30 by 30.
C3_ConvOutputShapeFormula ==
    conv_shape # <<>> =>
        LET c == conv_query.conv
            n == conv_query.input_shape
            out == conv_shape[1]
        IN  /\ Len(out) = 3
            /\ out[1] = c.out_channels
            /\ IsFloorOf(out[2] - 1,
                         n[2] + 2 * c.padding[1] - c.dilation[1] * (c.kernel_size[1] - 1) - 1,
                         c.stride[1])
            /\ IsFloorOf(out[3] - 1,
                         n[3] + 2 * c.padding[2] - c.dilation[2] * (c.kernel_size[2] - 1) - 1,
                         c.stride[2])
            /\ (/\ n = <<3, 32, 32>> /\ c.kernel_size = <<3, 3>> /\ c.stride = <<1, 1>>
                /\ c.padding = <<0, 0>> /\ c.dilation = <<1, 1>>)
               => (out[2] = 30 /\ out[3] = 30)

\* C3's case: the shape was computed for a convolution whose two axes differ in
\* every parameter and whose height quotient is negative and not exact, so the
\* floor and the per-axis parameters both matter.
C3_Witness ==
    /\ conv_shape # <<>>
    /\ conv_query.conv.kernel_size = <<2, 3>>
    /\ conv_query.conv.stride = <<2, 1>>
    /\ conv_query.conv.padding = <<0, 1>>
    /\ conv_query.conv.dilation = <<1, 2>>
    /\ conv_query.input_shape = <<3, 1, 32>>
    /\ conv_shape[1] = <<conv_query.conv.out_channels, 0, 30>>

(***************************************************************************)
(* Tensors. A tensor is its shape and its elements by index (from 0), and   *)
(* reshape relocates the elements in row-major order, as torch does.       *)
(***************************************************************************)
Front(q) == SubSeq(q, 1, Len(q) - 1)
Last(q) == q[Len(q)]

RECURSIVE Indices(_)
Indices(shape) ==
    IF shape = <<>> THEN {<<>>}
    ELSE {Append(i, k) : i \in Indices(Front(shape)), k \in 0..(Last(shape) - 1)}

\* the position of index idx in row-major order
RECURSIVE Ravel(_, _)
Ravel(idx, shape) ==
    IF idx = <<>> THEN 0
    ELSE Ravel(Front(idx), Front(shape)) * Last(shape) + Last(idx)

\* the index at position n in row-major order
RECURSIVE Unravel(_, _)
Unravel(n, shape) ==
    IF shape = <<>> THEN <<>>
    ELSE Append(Unravel(n \div Last(shape), Front(shape)), n % Last(shape))

\* the position of index idx in column-major order, and back
RECURSIVE RavelF(_, _)
RavelF(idx, shape) ==
    IF idx = <<>> THEN 0
    ELSE RavelF(Tail(idx), Tail(shape)) * Head(shape) + Head(idx)

RECURSIVE UnravelF(_, _)
UnravelF(n, shape) ==
    IF shape = <<>> THEN <<>>
    ELSE <<n % Head(shape)>> \o UnravelF(n \div Head(shape), Tail(shape))

NoTensor == [shape |-> <<>>, at |-> <<>>]

\* a reshape that reads and writes the elements in column-major order
ReshapeColumnMajor(t, shape) ==
    [shape |-> shape,
     at |-> [idx \in Indices(shape) |-> t.at[UnravelF(RavelF(idx, shape), t.shape)]]]

\* tensor.reshape(shape), lines 168-172
Reshape(t, shape) ==
    [shape |-> shape,
     at |-> [idx \in Indices(shape) |-> t.at[Unravel(Ravel(idx, shape), t.shape)]]]

(***************************************************************************)
(* Layers. One record for every kind of layer; a field a kind does not     *)
(* have keeps the value of NoLayer. bias is <<>> for None. scale is what   *)
(* the elements of weight were divided by; discretized says that           *)
(* discretize_conv_spike_ has been applied, and discretized_at is the      *)
(* scale the weights had when it was (0 before). v_mem is the shape of the *)
(* membrane state, <<>> while the state is not initialised.                *)
(***************************************************************************)
NoLayer == [kind |-> "None", in_features |-> 0, out_features |-> 0, in_channels |-> 0,
            out_channels |-> 0, kernel_size |-> <<>>, stride |-> <<>>, padding |-> <<>>,
            dilation |-> <<>>, bias |-> <<>>, weight |-> NoTensor, scale |-> 1,
            discretized |-> FALSE, discretized_at |-> 0, v_mem |-> <<>>, affine |-> FALSE,
            running_mean |-> <<>>, running_var |-> <<>>]

\* the elements of a weight or bias of the source model: all different
Labels(shape, first) ==
    [shape |-> shape, at |-> [idx \in Indices(shape) |-> first + Ravel(idx, shape)]]

Linear(in_features, out_features, bias) ==
    [NoLayer EXCEPT !.kind = "Linear", !.in_features = in_features,
                    !.out_features = out_features,
                    !.bias = IF bias THEN [i \in 1..out_features |-> 100 + i] ELSE <<>>,
                    !.weight = Labels(<<out_features, in_features>>, 1)]

Conv2d(in_channels, out_channels, kernel_size, stride, padding, dilation, bias) ==
    [NoLayer EXCEPT !.kind = "Conv2d", !.in_channels = in_channels,
                    !.out_channels = out_channels, !.kernel_size = kernel_size,
                    !.stride = stride, !.padding = padding, !.dilation = dilation,
                    !.bias = IF bias THEN [i \in 1..out_channels |-> 100 + i] ELSE <<>>,
                    !.weight = Labels(<<out_channels, in_channels, kernel_size[1],
                                        kernel_size[2]>>, 1)]

IAFSqueeze(v_mem) == [NoLayer EXCEPT !.kind = "IAFSqueeze", !.v_mem = v_mem]

\* kernel_size and stride are kept as they were given: a pair, or <<k>> for the
\* integer k
SumPool2d(kernel_size, stride) ==
    [NoLayer EXCEPT !.kind = "SumPool2d", !.kernel_size = kernel_size, !.stride = stride]

AvgPool2d(kernel_size, stride, padding) ==
    [NoLayer EXCEPT !.kind = "AvgPool2d", !.kernel_size = kernel_size, !.stride = stride,
                    !.padding = padding]

\* a layer of a kind DynapcnnLayer does not take
Flatten == [NoLayer EXCEPT !.kind = "Flatten"]

\* expand_to_pair(value), utils.py lines 49-50
expand_to_pair(value) == IF Len(value) = 1 THEN <<value[1], value[1]>> ELSE value

\* an entry of dcnnl_data with an integer key: node i is entry i
Node(layer, in_shape, out_shape) ==
    [layer |-> layer, input_shape |-> in_shape, output_shape |-> out_shape]

(***************************************************************************)
(* DynapcnnLayer.__init__(dcnnl_data, discretize, nodes_mapper,            *)
(* rescale_weights).                                                       *)
(***************************************************************************)
Positions(data, kinds) == {i \in DOMAIN data : data[i].layer.kind \in kinds}
Max(S) == CHOOSE x \in S : \A y \in S : y <= x
Min(S) == CHOOSE x \in S : \A y \in S : x <= y

\* lines 66-79: the loop over the nodes. It raises at the first node that is
\* neither spiking, linear, convolutional nor pooling; the last spiking and the
\* last linear or convolutional node are kept, the pooling nodes in their order.
ScanNodes(data) ==
    LET bad == DOMAIN data \ Positions(data, {"IAFSqueeze", "Linear", "Conv2d", "SumPool2d"})
        convs == Positions(data, {"Linear", "Conv2d"})
        spks == Positions(data, {"IAFSqueeze"})
    IN  [raised |-> IF bad # {} THEN "Node has not valid layer associated with it." ELSE "",
         conv_node_id |-> IF convs = {} THEN 0 ELSE Max(convs),
         spk_node_id |-> IF spks = {} THEN 0 ELSE Max(spks),
         pool_node_id |-> SelectSeq([i \in DOMAIN data |-> i],
                                    LAMBDA i : data[i].layer.kind = "SumPool2d")]

\* a conversion that does not compare in_features with the input shape
ConvertLinearUnchecked(lin, layer_data) ==
    LET in_shape == layer_data.input_shape
    IN  [raised |-> "",
         layer |-> [NoLayer EXCEPT
                      !.kind = "Conv2d",
                      !.in_channels = in_shape[1],
                      !.kernel_size = <<in_shape[2], in_shape[3]>>,
                      !.out_channels = lin.out_features,
                      !.stride = <<1, 1>>,
                      !.padding = <<0, 0>>,
                      !.dilation = <<1, 1>>,
                      !.bias = lin.bias],
         input_shape |-> in_shape]

\* _convert_linear_to_conv(lin, layer_data), lines 135-174
_convert_linear_to_conv(lin, layer_data) ==
    LET in_shape == layer_data.input_shape
        in_chan == in_shape[1]
        in_h == in_shape[2]
        in_w == in_shape[3]
    IN  IF lin.in_features # in_chan * in_h * in_w
        THEN [raised |-> "Shapes don't match.", layer |-> NoLayer, input_shape |-> in_shape]
        ELSE [raised |-> "",
              layer |-> [NoLayer EXCEPT
                           !.kind = "Conv2d",
                           !.in_channels = in_chan,
                           !.kernel_size = <<in_h, in_w>>,
                           !.out_channels = lin.out_features,
                           !.stride = <<1, 1>>,
                           !.padding = <<0, 0>>,
                           !.dilation = <<1, 1>>,
                           !.bias = lin.bias,
                           !.weight = Reshape(lin.weight,
                                              <<lin.out_features, in_chan, in_h, in_w>>)],
              input_shape |-> in_shape]

\* _update_neuron_node_output_shape(layer_data, input_shape), lines 186-191
_update_neuron_node_output_shape(data, spk_node_id, in_shape) ==
    [data EXCEPT ![spk_node_id].input_shape = in_shape,
                 ![spk_node_id].output_shape = in_shape]

\* the node of the convolution keeps the output shape the Linear had
KeepConvNodeShape(data, conv_node_id, conv_layer, in_shape) == data

\* _update_conv_node_output_shape(conv_layer, layer_data, input_shape), lines 176-184
_update_conv_node_output_shape(data, conv_node_id, conv_layer, in_shape) ==
    [data EXCEPT ![conv_node_id].output_shape = get_conv_output_shape(conv_layer, in_shape)]

\* the object __init__ works on without a copy: the module of the node itself
SameObject(layer) == [obj |-> layer, is_source |-> TRUE]

\* deepcopy(layer), lines 87, 102 and 122: a new object with the same contents
deepcopy(layer) == [obj |-> layer, is_source |-> FALSE]

\* the module of node node_id once __init__ has assigned to the attributes of
\* the object `ref` it works on, leaving it as `worked`: the module is changed
\* when that object is the module itself
ModuleAfter(data, node_id, ref, worked) ==
    IF ref.is_source THEN [data EXCEPT ![node_id].layer = worked] ELSE data

\* lines 87-89: the copy of the spiking layer, its state expanded by two axes
CopySpk(spk) ==
    IF spk.v_mem # <<>> THEN [spk EXCEPT !.v_mem = spk.v_mem \o <<1, 1>>] ELSE spk

\* lines 106-108: the weights divided by rescale_weights
Rescale(conv, rescale_weights) ==
    IF rescale_weights # 1 THEN [conv EXCEPT !.scale = conv.scale * rescale_weights] ELSE conv

\* lines 111-112: discretize_conv_spike_(conv, spk, to_int=False)
Discretize(layer, discretize) ==
    IF discretize THEN [layer EXCEPT !.discretized = TRUE, !.discretized_at = layer.scale]
    ELSE layer

\* the two statements in the other order: discretization, then rescaling
DiscretizeThenRescale(conv, discretize, rescale_weights) ==
    Rescale(Discretize(conv, discretize), rescale_weights)

\* lines 104-112: rescaling, then discretization
RescaleThenDiscretize(conv, discretize, rescale_weights) ==
    Discretize(Rescale(conv, rescale_weights), discretize)

\* the statements of __init__ that work on the convolution, in the order of
\* lines 91-112: conversion or copy, rescaling when rescale_weights != 1,
\* discretization when discretize
ConvSteps(converted, discretize, rescale_weights) ==
    <<IF converted THEN "convert" ELSE "copy">>
    \o (IF rescale_weights # 1 THEN <<"rescale">> ELSE <<>>)
    \o (IF discretize THEN <<"discretize">> ELSE <<>>)

\* what __init__ leaves when it raises: no layer, dcnnl_data as it is by then,
\* and the steps it had run
Raised(data, message, steps) ==
    [data |-> data,
     layer |-> [raised |-> message, steps |-> steps,
                conv_layer |-> <<>>, spk_layer |-> <<>>,
                pool_layer |-> <<>>,
                lin_to_conv_conversion |-> \E k \in DOMAIN steps : steps[k] = "convert",
                spk_node_id |-> 0]]

\* lines 104-122: rescale, discretize, then the pooling layers in their order,
\* each checked for a square kernel; kernel_size[0] of a kernel size given as
\* one integer is a TypeError
Consolidate(data, conv, spk, scan, converted, discretize, rescale_weights) ==
    LET pool == [k \in DOMAIN scan.pool_node_id |-> data[scan.pool_node_id[k]].layer]
        odd == {k \in DOMAIN pool : \/ Len(pool[k].kernel_size) = 1
                                     \/ pool[k].kernel_size[1] # pool[k].kernel_size[2]}
        steps == ConvSteps(converted, discretize, rescale_weights)
    IN  IF odd # {}
        THEN IF Len(pool[Min(odd)].kernel_size) = 1
             THEN Raised(data, "TypeError: 'int' object is not subscriptable", steps)
             ELSE Raised(data, "Only square kernels are supported", steps)
        ELSE [data |-> data,
              layer |-> [raised |-> "", steps |-> steps,
                         conv_layer |-> <<RescaleThenDiscretize(conv, discretize,
                                                                rescale_weights)>>,
                         spk_layer |-> <<Discretize(spk, discretize)>>,
                         pool_layer |-> pool,
                         lin_to_conv_conversion |-> converted,
                         spk_node_id |-> scan.spk_node_id]]

\* __init__, lines 40-122: the layer built (or the error raised) and dcnnl_data
\* as the call leaves it
DynapcnnLayerInit(data, discretize, rescale_weights) ==
    LET scan == ScanNodes(data)
    IN  IF scan.raised # "" THEN Raised(data, scan.raised, <<>>)
        ELSE IF scan.conv_node_id = 0 THEN Raised(data, "Convolution layer not present.", <<>>)
        ELSE IF scan.spk_node_id = 0 THEN Raised(data, "Spiking layer not present.", <<>>)
        ELSE
        LET spk_ref == deepcopy(data[scan.spk_node_id].layer)
            spk == CopySpk(spk_ref.obj)
            conv == data[scan.conv_node_id].layer
            d0 == ModuleAfter(data, scan.spk_node_id, spk_ref, spk)
        IN  IF conv.kind = "Linear"
            THEN LET cv == _convert_linear_to_conv(conv, data[scan.conv_node_id])
                 IN  IF cv.raised # "" THEN Raised(d0, cv.raised, <<"convert">>)
                     ELSE LET d1 == _update_conv_node_output_shape(
                                        d0, scan.conv_node_id, cv.layer, cv.input_shape)
                              d2 == _update_neuron_node_output_shape(
                                        d1, scan.spk_node_id,
                                        d1[scan.conv_node_id].output_shape)
                              d3 == ModuleAfter(d2, scan.spk_node_id, spk_ref,
                                                Discretize(spk, discretize))
                          IN  Consolidate(d3, cv.layer, spk, scan, TRUE,
                                          discretize, rescale_weights)
            ELSE LET conv_ref == deepcopy(conv)
                     d1 == ModuleAfter(d0, scan.conv_node_id, conv_ref,
                                       RescaleThenDiscretize(conv_ref.obj, discretize,
                                                             rescale_weights))
                     d2 == ModuleAfter(d1, scan.spk_node_id, spk_ref,
                                       Discretize(spk, discretize))
                 IN  Consolidate(d2, conv_ref.obj, spk, scan, FALSE,
                                 discretize, rescale_weights)

\* get_modified_node_it(dcnnl_data), lines 193-197; <<0, <<>>>> is (None, None)
get_modified_node_it(layer, data) ==
    IF layer.lin_to_conv_conversion
    THEN <<layer.spk_node_id, data[layer.spk_node_id].output_shape>>
    ELSE <<0, <<>>>>

(***************************************************************************)
(* The groups DynapcnnLayer is built from. The shapes of the nodes are     *)
(* those the tracer recorded on the model before any conversion: a Linear  *)
(* applied to a flattened input gives (F), one applied to the last axis of *)
(* (C, H, W) gives (C, H, F).                                              *)
(***************************************************************************)
MaxChan == 3
MaxFeat == 4
MaxPools == 2

InFeatures(c, h, w) == {c * h * w, c * h * w + 1, w} \cup ({c * h * w - 1} \ {0})

LinearOutShapes(c, h, w, in_features, f) ==
    {<<f>>} \cup (IF in_features = w THEN {<<c, h, f>>} ELSE {})

\* the pooling nodes behind the spiking node of a Linear: none, a pooling of
\* kernel and stride 1 (the only square one that fits every shape), or one
\* over pairs of the last axis
LinearPools == {<<>>, <<SumPool2d(<<1, 1>>, <<1, 1>>)>>, <<SumPool2d(<<1, 2>>, <<1, 2>>)>>}

LinearGroup(c, h, w, in_features, f, bias, out_shape, pools) ==
    <<Node(Linear(in_features, f, bias), <<c, h, w>>, out_shape),
      Node(IAFSqueeze(<<>>), out_shape, out_shape)>>
    \o [k \in DOMAIN pools |-> Node(pools[k], out_shape, out_shape)]

LinearGroups ==
    {LinearGroup(c, h, w, n, f, bias, out_shape, pools) :
        <<c, h, w, n, f, bias, out_shape, pools>> \in
            {q \in (1..MaxChan) \X (1..MaxDim) \X (1..MaxDim) \X (1..(MaxChan * MaxDim * MaxDim + 1))
                   \X (1..MaxFeat) \X BOOLEAN
                   \X ({<<f>> : f \in 1..MaxFeat}
                       \cup ((1..MaxChan) \X (1..MaxDim) \X (1..MaxFeat)))
                   \X LinearPools :
                /\ q[4] \in InFeatures(q[1], q[2], q[3])
                /\ q[7] \in LinearOutShapes(q[1], q[2], q[3], q[4], q[5])}}

\* kernel sizes and strides of the pooling layers of a group
PoolKernels == {<<1, 1>>, <<2, 2>>, <<2, 3>>, <<2>>}
PoolLayers == {SumPool2d(k, st) : k \in PoolKernels, st \in {<<1, 1>>, <<2, 2>>}}
             \cup {SumPool2d(k, k) : k \in PoolKernels}

\* the output shape of a pooling layer on an input shape
PoolOutShape(in_shape, pool) ==
    <<in_shape[1],
      FloorDiv(in_shape[2] - expand_to_pair(pool.kernel_size)[1],
               expand_to_pair(pool.stride)[1]) + 1,
      FloorDiv(in_shape[3] - expand_to_pair(pool.kernel_size)[2],
               expand_to_pair(pool.stride)[2]) + 1>>

RECURSIVE PoolNodes(_, _)
PoolNodes(pools, in_shape) ==
    IF pools = <<>> THEN <<>>
    ELSE <<Node(Head(pools), in_shape, PoolOutShape(in_shape, Head(pools)))>>
         \o PoolNodes(Tail(pools), PoolOutShape(in_shape, Head(pools)))

\* a group around a convolution on an 8 by 8 input, each of its parts present or
\* not: the convolution, the spiking layer with its state initialised or not,
\* the pooling layers, nodes of another kind (other)
ConvGroup(with_conv, bias, with_spk, v_mem, pools, other) ==
    (IF with_conv
     THEN <<Node(Conv2d(1, 2, <<1, 1>>, <<1, 1>>, <<0, 0>>, <<1, 1>>, bias),
                 <<1, 8, 8>>, <<2, 8, 8>>)>>
     ELSE <<>>)
    \o (IF with_spk THEN <<Node(IAFSqueeze(v_mem), <<2, 8, 8>>, <<2, 8, 8>>)>> ELSE <<>>)
    \o PoolNodes(pools, <<2, 8, 8>>)
    \o [i \in DOMAIN other |-> Node(other[i], <<2, 8, 8>>, <<2, 8, 8>>)]

ConvGroups ==
    {ConvGroup(with_conv, bias, with_spk, v_mem, pools, other) :
        with_conv \in BOOLEAN, bias \in BOOLEAN, with_spk \in BOOLEAN,
        v_mem \in {<<>>, <<1, 2, 8, 8>>}, pools \in SeqsUpTo(PoolLayers, MaxPools),
        other \in {<<>>, <<Flatten>>, <<AvgPool2d(<<2>>, <<2>>, <<1>>)>>}}

BuildArgs == [discretize : BOOLEAN, rescale_weights : {1, 4}]

\* the arguments of the call are kept in build_args as they were handed in
LayerArgs ==
    /\ dcnnl_data \in LinearGroups \cup ConvGroups
    /\ \E a \in BuildArgs :
          build_args = [discretize |-> a.discretize, rescale_weights |-> a.rescale_weights,
                        dcnnl_data |-> dcnnl_data]
    /\ dynapcnn_layer = <<>>
    /\ modified_node = <<>>

\* DynapcnnLayer(dcnnl_data, discretize, nodes_mapper, rescale_weights)
BuildLayer ==
    /\ dynapcnn_layer = <<>>
    /\ \E r \in {DynapcnnLayerInit(dcnnl_data, build_args.discretize,
                                   build_args.rescale_weights)} :
         /\ dcnnl_data' = r.data
         /\ dynapcnn_layer' = <<r.layer>>
    /\ UNCHANGED <<build_args, modified_node, deploy_vars, pool_vars, shape_vars,
                 graph_vars, spike_vars>>

\* layer.get_modified_node_it(dcnnl_data) on the layer that was built
GetModifiedNode ==
    /\ dynapcnn_layer # <<>>
    /\ dynapcnn_layer[1].raised = ""
    /\ modified_node = <<>>
    /\ modified_node' = <<get_modified_node_it(dynapcnn_layer[1], dcnnl_data)>>
    /\ UNCHANGED <<dcnnl_data, build_args, dynapcnn_layer, deploy_vars, pool_vars, shape_vars,
                 graph_vars, spike_vars>>

NextLayer == BuildLayer \/ GetModifiedNode

InitLayer == LayerArgs /\ DeployIdle /\ PoolIdle /\ ShapeIdle
             /\ GraphIdle /\ SpikeIdle

SpecLayer == InitLayer /\ [][NextLayer]_vars

Built == dynapcnn_layer # <<>> /\ dynapcnn_layer[1].raised = ""
Failed(message) == dynapcnn_layer # <<>> /\ dynapcnn_layer[1].raised = message

TypeOKLayer == dynapcnn_layer = <<>> \/ Len(dynapcnn_layer) = 1

\* the group starts with a Linear node and the constructor has run on it
LinearGroupDone == /\ dynapcnn_layer # <<>>
                   /\ dcnnl_data # <<>>
                   /\ dcnnl_data[1].layer.kind = "Linear"
Volume(shape) == shape[1] * shape[2] * shape[3]

\* C4: the conversion of a group whose first node is Linear with input shape
\* (C, H, W) fails with "Shapes don't match." whenever in_features # C*H*W and
\* then no layer is produced; it succeeds only when in_features = C*H*W.
C4_ShapeMismatchRejected ==
    LinearGroupDone =>
        LET lin == dcnnl_data[1].layer
            matches == lin.in_features = Volume(dcnnl_data[1].input_shape)
        IN  /\ ~matches => /\ Failed("Shapes don't match.")
                           /\ dynapcnn_layer[1].conv_layer = <<>>
                           /\ dynapcnn_layer[1].spk_layer = <<>>
            /\ Built => matches
            /\ matches => ~Failed("Shapes don't match.")

\* C4's case: a Linear of 13 inputs on the input shape (3, 2, 2) was rejected
C4_Witness ==
    /\ LinearGroupDone
    /\ dcnnl_data[1].layer.in_features = 13
    /\ dcnnl_data[1].input_shape = <<3, 2, 2>>
    /\ Failed("Shapes don't match.")
    /\ dynapcnn_layer[1].conv_layer = <<>>

\* C5: a Linear of F outputs on the input shape (C, H, W) becomes a convolution
\* of C input channels, kernel (H, W), F output channels, padding 0 and stride
\* 1, with a bias exactly when the Linear had one (the same bias), and the
\* node's recorded output shape becomes (F, 1, 1).
C5_ConvertedConvolution ==
    (LinearGroupDone /\ Built) =>
        LET lin == dcnnl_data[1].layer
            in_shape == dcnnl_data[1].input_shape
            conv == dynapcnn_layer[1].conv_layer[1]
        IN  /\ dynapcnn_layer[1].lin_to_conv_conversion
            /\ conv.kind = "Conv2d"
            /\ conv.in_channels = in_shape[1]
            /\ conv.kernel_size = <<in_shape[2], in_shape[3]>>
            /\ conv.out_channels = lin.out_features
            /\ conv.padding = <<0, 0>>
            /\ conv.stride = <<1, 1>>
            /\ (conv.bias # <<>>) <=> (lin.bias # <<>>)
            /\ conv.bias = lin.bias
            /\ dcnnl_data[1].output_shape = <<lin.out_features, 1, 1>>

\* C5's case: Linear(12, 4) with a bias on (3, 2, 2), recorded with the output
\* shape (4), is a convolution of kernel (2, 2) whose node has the shape (4, 1, 1)
C5_Witness ==
    /\ LinearGroupDone /\ Built
    /\ dcnnl_data[1].layer.in_features = 12
    /\ dcnnl_data[1].layer.out_features = 4
    /\ dcnnl_data[1].layer.bias # <<>>
    /\ dcnnl_data[1].input_shape = <<3, 2, 2>>
    /\ dynapcnn_layer[1].conv_layer[1].kernel_size = <<2, 2>>
    /\ dynapcnn_layer[1].conv_layer[1].bias # <<>>
    /\ dcnnl_data[1].output_shape = <<4, 1, 1>>

\* C6: the weight of the converted convolution is the weight of the Linear
\* reshaped: conv_weight[o][c][h][w] = linear_weight[o][c*H*W + h*W + w] for
\* every o, c, h, w, so the converted weight flattened to (out_features,
\* in_features) is the weight of the Linear again.
C6_WeightIsReshaped ==
    (LinearGroupDone /\ Built) =>
        LET lin == dcnnl_data[1].layer
            H == dcnnl_data[1].input_shape[2]
            W == dcnnl_data[1].input_shape[3]
            conv == dynapcnn_layer[1].conv_layer[1]
        IN  /\ conv.weight.shape = <<lin.out_features, dcnnl_data[1].input_shape[1], H, W>>
            /\ \A idx \in Indices(conv.weight.shape) :
                  conv.weight.at[idx]
                      = lin.weight.at[<<idx[1], idx[2] * H * W + idx[3] * W + idx[4]>>]
            /\ [i \in Indices(<<lin.out_features, lin.in_features>>) |->
                   conv.weight.at[<<i[1], i[2] \div (H * W), (i[2] \div W) % H, i[2] % W>>]]
               = lin.weight.at

\* C6's case: Linear(12, 4) on (3, 2, 2); element (1, 2, 1, 0) of the converted
\* weight is element (1, 10) of the weight of the Linear
C6_Witness ==
    /\ LinearGroupDone /\ Built
    /\ dcnnl_data[1].layer.weight.shape = <<4, 12>>
    /\ dcnnl_data[1].input_shape = <<3, 2, 2>>
    /\ dynapcnn_layer[1].conv_layer[1].weight.shape = <<4, 3, 2, 2>>
    /\ dynapcnn_layer[1].conv_layer[1].weight.at[<<1, 2, 1, 0>>]
           = dcnnl_data[1].layer.weight.at[<<1, 10>>]
    /\ dynapcnn_layer[1].conv_layer[1].weight.at[<<1, 2, 1, 0>>]
           # dynapcnn_layer[1].conv_layer[1].weight.at[<<1, 1, 0, 1>>]

\* C7: after the Linear of a group was converted, the recorded shapes of the
\* nodes behind it are consistent: the spiking node's input and output shape
\* are the new output shape of the convolution, and the input shape of every
\* pooling node is the output shape of the node before it.
C7_DownstreamShapesUpdated ==
    (LinearGroupDone /\ Built) =>
        /\ dcnnl_data[2].input_shape = dcnnl_data[1].output_shape
        /\ dcnnl_data[2].output_shape = dcnnl_data[1].output_shape
        /\ \A i \in DOMAIN dcnnl_data :
              dcnnl_data[i].layer.kind = "SumPool2d"
                  => dcnnl_data[i].input_shape = dcnnl_data[i - 1].output_shape

(***************************************************************************)
(* utils.py: construct_next_pooling_layer(layers).                         *)
(*                                                                         *)
(* A pooling layer keeps kernel_size, stride and padding as they were      *)
(* given: a pair, or <<k>> for the integer k; the stride of a SumPool2d    *)
(* built without one is None, written <<>>.                                *)
(***************************************************************************)
MaxChain == 3

\* lines 81-83 with the check of the padding left out
PaddingIgnored(lyr) == FALSE

\* lines 81-83: lyr.padding != 0 on an AvgPool2d; a SumPool2d has no padding
PaddingRejected(lyr) == lyr.kind = "AvgPool2d" /\ lyr.padding # <<0>>

\* the kernel of the last pooling layer instead of the product
LastPooling(cumulative_pooling, pooling) == pooling

\* lines 95-98
CumulativePooling(cumulative_pooling, pooling) ==
    <<cumulative_pooling[1] * pooling[1], cumulative_pooling[2] * pooling[2]>>

PoolRaised(message) == [raised |-> message, lyr_pool |-> <<>>, idx_next |-> 0,
                        rescale_factor |-> 0]

\* lines 102-107: what is returned once the loop has ended with idx_next
PoolReturn(cumulative_pooling, idx_next, rescale_factor) ==
    IF cumulative_pooling = <<1, 1>>
    THEN [raised |-> "", lyr_pool |-> <<>>, idx_next |-> idx_next, rescale_factor |-> 1]
    ELSE [raised |-> "", lyr_pool |-> <<SumPool2d(cumulative_pooling, <<>>)>>,
          idx_next |-> idx_next, rescale_factor |-> rescale_factor]

\* lines 80-100: the loop from element i (counted from 1) on. idx_next is the
\* loop variable: the index (from 0) of the element the loop stopped at, the
\* last index when the loop ran to the end, and 0 for an empty list.
RECURSIVE PoolingLoop(_, _, _, _)
PoolingLoop(lyrs, i, cumulative_pooling, rescale_factor) ==
    IF i > Len(lyrs)
    THEN PoolReturn(cumulative_pooling, IF lyrs = <<>> THEN 0 ELSE Len(lyrs) - 1,
                    rescale_factor)
    ELSE IF PaddingRejected(lyrs[i])
    THEN PoolRaised("Padding is not supported for the pooling layers")
    ELSE IF lyrs[i].kind \notin {"AvgPool2d", "SumPool2d"}
    THEN PoolReturn(cumulative_pooling, i - 1, rescale_factor)
    ELSE LET pooling == expand_to_pair(lyrs[i].kernel_size)
             stride == expand_to_pair(lyrs[i].stride)
         IN  IF pooling # stride
             THEN PoolRaised("Stride length should be the same as pooling kernel size")
             ELSE PoolingLoop(lyrs, i + 1, CumulativePooling(cumulative_pooling, pooling),
                              rescale_factor * (pooling[1] * pooling[2]))

\* construct_next_pooling_layer(layers), lines 53-107
construct_next_pooling_layer(lyrs) == PoolingLoop(lyrs, 1, <<1, 1>>, 1)

(***************************************************************************)
(* utils.py: merge_conv_bn and construct_next_dynapcnn_layer.              *)
(***************************************************************************)
\* BatchNorm2d over n channels; running_var holds squares and the weight
\* multiples of their roots, so that gamma / sqrt(sigmasq) is exact
BatchNorm2d(n, affine) ==
    [NoLayer EXCEPT !.kind = "BatchNorm2d", !.affine = affine,
                    !.running_mean = [i \in 1..n |-> i],
                    !.running_var = [i \in 1..n |-> 4],
                    !.weight = IF affine
                               THEN [shape |-> <<n>>,
                                     at |-> [idx \in Indices(<<n>>) |-> 2 * (idx[1] + 2)]]
                               ELSE NoTensor,
                    !.bias = IF affine THEN [i \in 1..n |-> 10 + i] ELSE <<>>]

Sqrt(n) == CHOOSE r \in 0..n : r * r = n

\* lines 28-36: factor = gamma / sigmasq.sqrt() of channel ch, counted from 1
Factor(bn, ch) ==
    (IF bn.affine THEN bn.weight.at[<<ch - 1>>] ELSE 1) \div Sqrt(bn.running_var[ch])

\* lines 38, 43: c_weight * factor[:, None, None, None]
FoldedWeight(conv, bn) ==
    [shape |-> conv.weight.shape,
     at |-> [idx \in DOMAIN conv.weight.at |->
                conv.weight.at[idx] * Factor(bn, idx[1] + 1)]]

\* lines 39, 44: beta + (c_bias - mu) * factor, c_bias being 0.0 without bias
FoldedBias(conv, bn) ==
    [ch \in 1..conv.out_channels |->
        (IF bn.affine THEN bn.bias[ch] ELSE 0)
        + ((IF conv.bias = <<>> THEN 0 ELSE conv.bias[ch]) - bn.running_mean[ch])
          * Factor(bn, ch)]

\* merge_conv_bn without the deepcopy of line 41: the parameters are assigned
\* to the convolution handed in, which is the object returned
MergeConvBnInPlace(conv, bn) ==
    IF conv.bias = <<>>
    THEN [raised |-> "AttributeError: 'NoneType' object has no attribute 'data'",
          layer |-> NoLayer, is_copy |-> FALSE,
          conv |-> [conv EXCEPT !.weight = FoldedWeight(conv, bn)]]
    ELSE [raised |-> "", is_copy |-> FALSE,
          layer |-> [conv EXCEPT !.weight = FoldedWeight(conv, bn),
                                 !.bias = FoldedBias(conv, bn)],
          conv |-> [conv EXCEPT !.weight = FoldedWeight(conv, bn),
                                !.bias = FoldedBias(conv, bn)]]

\* merge_conv_bn(conv, bn), lines 13-46: what is raised, the convolution
\* returned (layer), whether it is another object than the one handed in, and
\* the convolution handed in as the call leaves it (conv). The assignments of
\* lines 43-44 go to the deepcopy of line 41; `conv.bias.data = ...` on a
\* convolution without bias is an attribute assignment on None.
merge_conv_bn(conv, bn) ==
    IF conv.bias = <<>>
    THEN [raised |-> "AttributeError: 'NoneType' object has no attribute 'data'",
          layer |-> NoLayer, is_copy |-> TRUE, conv |-> conv]
    ELSE [raised |-> "", is_copy |-> TRUE,
          layer |-> [conv EXCEPT !.weight = FoldedWeight(conv, bn),
                                 !.bias = FoldedBias(conv, bn)],
          conv |-> conv]

\* DynapcnnLayer(conv, spk, pool, in_shape, discretize, rescale_weights) of
\* dynapcnnlayer.py: a Linear is converted on in_shape, the weights are divided
\* by rescale_weights and discretized, and the pooling kernel has to be square
DynapcnnLayerOld(conv, spk, pool, in_shape, discretize, rescale_weights) ==
    LET cv == IF conv.kind = "Linear"
              THEN _convert_linear_to_conv(conv, [input_shape |-> in_shape])
              ELSE [raised |-> "", layer |-> conv, input_shape |-> in_shape]
    IN  IF cv.raised # ""
        THEN [raised |-> cv.raised, conv_layer |-> <<>>, spk_layer |-> <<>>,
              pool_layer |-> <<>>]
        ELSE IF pool # <<>> /\ pool[1].kernel_size[1] # pool[1].kernel_size[2]
        THEN [raised |-> "Only square kernels are supported", conv_layer |-> <<>>,
              spk_layer |-> <<>>, pool_layer |-> <<>>]
        ELSE [raised |-> "",
              conv_layer |-> <<Discretize(Rescale(cv.layer, rescale_weights), discretize)>>,
              spk_layer |-> <<Discretize(CopySpk(spk), discretize)>>,
              pool_layer |-> pool]

DynaRaised(message) == [raised |-> message, dynapcnn_layer |-> <<>>, layer_idx_next |-> 0,
                        rescale_factor |-> 0]

RescaleWeightsAfterPooling(rescale_factor, rescale_factor_after_pooling) ==
    rescale_factor_after_pooling

\* line 183, rescale_weights=rescale_factor: the weights of the layer are
\* divided by the factor handed in, not by the factor of its own pooling
RescaleWeights(rescale_factor, rescale_factor_after_pooling) == rescale_factor

\* lines 158-186: from the spiking layer on, lyr_conv being settled and
\* layer_idx_next (counted from 0) pointing behind it
FromSpikingLayer(lyrs, lyr_conv, layer_idx_next, in_shape, discretize, rescale_factor) ==
    IF layer_idx_next >= Len(lyrs)
    THEN DynaRaised("Convolution must be followed by spiking layer. End of network found.")
    ELSE IF lyrs[layer_idx_next + 1].kind # "IAFSqueeze"
    THEN DynaRaised("Convolution must be followed by spiking layer, found another layer")
    ELSE LET p == construct_next_pooling_layer(
                      SubSeq(lyrs, layer_idx_next + 2, Len(lyrs)))
         IN  IF p.raised # "" THEN DynaRaised(p.raised)
             ELSE LET built == DynapcnnLayerOld(lyr_conv, lyrs[layer_idx_next + 1],
                                                p.lyr_pool, in_shape, discretize,
                                                RescaleWeights(rescale_factor,
                                                               p.rescale_factor))
                  IN  IF built.raised # "" THEN DynaRaised(built.raised)
                      ELSE [raised |-> "", dynapcnn_layer |-> <<built>>,
                            layer_idx_next |-> layer_idx_next + 1 + p.idx_next,
                            rescale_factor |-> p.rescale_factor]

\* construct_next_dynapcnn_layer(layers, in_shape, discretize, rescale_factor),
\* lines 110-186
construct_next_dynapcnn_layer(lyrs, in_shape, discretize, rescale_factor) ==
    IF lyrs = <<>> THEN DynaRaised("IndexError: list index out of range")
    ELSE IF lyrs[1].kind \notin {"Conv2d", "Linear"}
    THEN DynaRaised("The list of layers needs to start with Conv2d or Linear.")
    ELSE IF Len(lyrs) = 1 THEN DynaRaised("IndexError: list index out of range")
    ELSE IF lyrs[2].kind = "BatchNorm2d"
    THEN LET merged == merge_conv_bn(lyrs[1], lyrs[2])
         IN  IF merged.raised # "" THEN DynaRaised(merged.raised)
             ELSE FromSpikingLayer(lyrs, merged.layer, 2, in_shape, discretize,
                                   rescale_factor)
    ELSE FromSpikingLayer(lyrs, lyrs[1], 1, in_shape, discretize, rescale_factor)

\* the pooling layers the lists are made of
AvgPools ==
    {AvgPool2d(k, k, p) : k \in {<<1>>, <<2>>, <<2, 3>>}, p \in {<<0>>, <<1>>}}
    \cup {AvgPool2d(<<2>>, <<1>>, <<0>>), AvgPool2d(<<2>>, <<2, 2>>, <<0>>),
          AvgPool2d(<<2, 2>>, <<2, 2>>, <<0>>), AvgPool2d(<<2>>, <<2>>, <<0, 0>>)}
SumPools == {SumPool2d(<<1, 1>>, <<1, 1>>), SumPool2d(<<2, 2>>, <<2, 2>>),
             SumPool2d(<<2>>, <<>>), SumPool2d(<<2>>, <<2>>)}
OtherLayers == {Conv2d(1, 1, <<1, 1>>, <<1, 1>>, <<0, 0>>, <<1, 1>>, TRUE), IAFSqueeze(<<>>)}

\* the lists handed to construct_next_pooling_layer
PoolLists == SeqsUpTo(AvgPools \cup SumPools \cup OtherLayers, MaxChain)

\* the lists handed to construct_next_dynapcnn_layer: a first layer, a batch
\* normalisation behind a convolution or none, the next layer or none, up to
\* MaxPools pooling layers, and the next group (its convolution alone, or
\* with its spiking layer and a pooling) or none
ChainPools == {AvgPool2d(<<2>>, <<2>>, <<0>>), AvgPool2d(<<2, 3>>, <<2, 3>>, <<0>>),
               AvgPool2d(<<2>>, <<1>>, <<0>>), AvgPool2d(<<2>>, <<2>>, <<1>>),
               SumPool2d(<<1, 1>>, <<1, 1>>), SumPool2d(<<2, 2>>, <<2, 2>>)}
FirstLayers ==
    {<<Conv2d(1, 2, <<1, 1>>, <<1, 1>>, <<0, 0>>, <<1, 1>>, bias)>> \o bn :
        bias \in BOOLEAN, bn \in {<<>>, <<BatchNorm2d(2, TRUE)>>, <<BatchNorm2d(2, FALSE)>>}}
    \cup {<<Linear(4, 2, TRUE)>>, <<IAFSqueeze(<<>>)>>}
DynaLists ==
    {first \o mid \o chain \o next :
        first \in FirstLayers, mid \in {<<>>, <<IAFSqueeze(<<>>)>>, <<Flatten>>},
        chain \in SeqsUpTo(ChainPools, MaxPools),
        next \in {<<>>, <<Conv2d(2, 1, <<1, 1>>, <<1, 1>>, <<0, 0>>, <<1, 1>>, TRUE)>>,
                   <<Conv2d(2, 1, <<1, 1>>, <<1, 1>>, <<0, 0>>, <<1, 1>>, TRUE),
                     IAFSqueeze(<<>>), AvgPool2d(<<2>>, <<2>>, <<0>>)>>}}

NoResult == <<>>

PoolArgs ==
    /\ layers \in PoolLists \cup DynaLists
    /\ pool_result = NoResult

\* construct_next_pooling_layer(layers)
ConstructNextPoolingLayer ==
    /\ pool_result = NoResult
    /\ \E r \in {construct_next_pooling_layer(layers)} :
         pool_result' = <<[op |-> "construct_next_pooling_layer", in_shape |-> <<>>,
                           discretize |-> FALSE, rescale_factor |-> 1, out |-> r]>>
    /\ UNCHANGED <<layers, deploy_vars, layer_vars, shape_vars,
                 graph_vars, spike_vars>>

\* construct_next_dynapcnn_layer(layers, in_shape, discretize, rescale_factor)
ConstructNextDynapcnnLayer ==
    /\ pool_result = NoResult
    /\ layers \in DynaLists
    /\ \E in_shape \in {<<1, 2, 2>>, <<1, 2, 3>>}, discretize \in BOOLEAN,
          rescale_factor \in {1, 4} :
         \E r \in {construct_next_dynapcnn_layer(layers, in_shape, discretize,
                                                 rescale_factor)} :
            pool_result' = <<[op |-> "construct_next_dynapcnn_layer", in_shape |-> in_shape,
                              discretize |-> discretize, rescale_factor |-> rescale_factor,
                              out |-> r]>>
    /\ UNCHANGED <<layers, deploy_vars, layer_vars, shape_vars,
                 graph_vars, spike_vars>>

\* the call that follows a call of construct_next_dynapcnn_layer which built a
\* layer, as the docstring of lines 129-141 describes it: on the layers from
\* layer_idx_next on, with the rescale_factor the first call returned
ConstructFollowingDynapcnnLayer ==
    /\ Len(pool_result) = 1
    /\ pool_result[1].op = "construct_next_dynapcnn_layer"
    /\ pool_result[1].out.raised = ""
    /\ pool_result[1].out.layer_idx_next < Len(layers)
    /\ \E in_shape \in {<<2, 1, 1>>, <<2, 2, 2>>} :
         \E r \in {construct_next_dynapcnn_layer(
                       SubSeq(layers, pool_result[1].out.layer_idx_next + 1, Len(layers)),
                       in_shape, pool_result[1].discretize,
                       pool_result[1].out.rescale_factor)} :
            pool_result' = Append(pool_result,
                                  [op |-> "construct_next_dynapcnn_layer",
                                   in_shape |-> in_shape,
                                   discretize |-> pool_result[1].discretize,
                                   rescale_factor |-> pool_result[1].out.rescale_factor,
                                   out |-> r])
    /\ UNCHANGED <<layers, deploy_vars, layer_vars, shape_vars,
                 graph_vars, spike_vars>>

\* merge_conv_bn(layers[0], layers[1]) on a list that starts with a
\* convolution and a batch normalisation; layers[0] is afterwards what the call
\* left of the convolution handed in
MergeConvBn ==
    /\ pool_result = NoResult
    /\ Len(layers) >= 2
    /\ layers[1].kind = "Conv2d"
    /\ layers[2].kind = "BatchNorm2d"
    /\ \E r \in {merge_conv_bn(layers[1], layers[2])} :
         /\ pool_result' = <<[op |-> "merge_conv_bn", in_shape |-> <<>>,
                              discretize |-> FALSE, rescale_factor |-> 1,
                              conv |-> layers[1], bn |-> layers[2], out |-> r]>>
         /\ layers' = [layers EXCEPT ![1] = r.conv]
    /\ UNCHANGED <<deploy_vars, layer_vars, shape_vars,
                 graph_vars, spike_vars>>

NextPool == \/ MergeConvBn
            \/ ConstructNextPoolingLayer
            \/ ConstructNextDynapcnnLayer
            \/ ConstructFollowingDynapcnnLayer

InitPool == PoolArgs /\ DeployIdle /\ LayerIdle /\ ShapeIdle
            /\ GraphIdle /\ SpikeIdle

SpecPool == InitPool /\ [][NextPool]_vars

TypeOKPool == pool_result = NoResult \/ Len(pool_result) \in {1, 2}

(***************************************************************************)
(* Both ways of building a hardware layer: DynapcnnLayer from a group of   *)
(* the graph, and the helpers of utils.py from a list of layers.           *)
(***************************************************************************)
InitBuild == InitLayer \/ InitPool

NextBuild == NextLayer \/ NextPool

SpecBuild == InitBuild /\ [][NextBuild]_vars

IsPooling(lyr) == lyr.kind \in {"AvgPool2d", "SumPool2d"}

\* the pooling layers a list starts with
RECURSIVE LeadingChain(_)
LeadingChain(lyrs) ==
    IF lyrs = <<>> \/ ~IsPooling(Head(lyrs)) THEN <<>>
    ELSE <<Head(lyrs)>> \o LeadingChain(Tail(lyrs))

\* the kernel of a pooling layer as (height, width)
KernelOf(lyr) == IF Len(lyr.kernel_size) = 1 THEN <<lyr.kernel_size[1], lyr.kernel_size[1]>>
                 ELSE lyr.kernel_size
StrideOf(lyr) == IF Len(lyr.stride) = 1 THEN <<lyr.stride[1], lyr.stride[1]>> ELSE lyr.stride

RECURSIVE ProductOfKernels(_)
ProductOfKernels(chain) ==
    IF chain = <<>> THEN <<1, 1>>
    ELSE <<KernelOf(Head(chain))[1] * ProductOfKernels(Tail(chain))[1],
           KernelOf(Head(chain))[2] * ProductOfKernels(Tail(chain))[2]>>

RECURSIVE ProductOfAreas(_)
ProductOfAreas(chain) ==
    IF chain = <<>> THEN 1
    ELSE KernelOf(Head(chain))[1] * KernelOf(Head(chain))[2] * ProductOfAreas(Tail(chain))

\* construct_next_pooling_layer was called and has returned
Consolidated == /\ pool_result # <<>>
                /\ pool_result[1].op = "construct_next_pooling_layer"
                /\ pool_result[1].out.raised = ""

\* the result is one SumPool2d of the given kernel
IsSumPoolOf(lyr_pool, kernel) == /\ Len(lyr_pool) = 1
                                 /\ lyr_pool[1].kind = "SumPool2d"
                                 /\ lyr_pool[1].kernel_size = kernel

HelperDone(op) == /\ pool_result # <<>>
                  /\ pool_result[1].op = op
\* the pooling layers a helper takes as the chain of the group: the list itself,
\* or what follows the spiking layer
ChainOfGroup ==
    IF pool_result[1].op = "construct_next_pooling_layer" THEN LeadingChain(layers)
    ELSE LeadingChain(SubSeq(layers,
                             1 + Min({i \in 1..(Len(layers) + 1) :
                                         i > Len(layers) \/ ~(layers[i].kind \in
                                             {"Conv2d", "Linear", "BatchNorm2d"})}),
                             Len(layers)))

\* C9: a trailing pooling node whose kernel size differs from its stride is
\* rejected and no hardware layer is built from its group, on every path: the
\* helpers of utils.py and DynapcnnLayer built from a group of the graph.
C9_StrideMustEqualKernel ==
    /\ (HelperDone("construct_next_pooling_layer") \/ HelperDone("construct_next_dynapcnn_layer"))
           => \A i \in DOMAIN ChainOfGroup :
                 KernelOf(ChainOfGroup[i]) # StrideOf(ChainOfGroup[i])
                     => /\ pool_result[1].out.raised # ""
                        /\ (pool_result[1].op = "construct_next_dynapcnn_layer")
                               => pool_result[1].out.dynapcnn_layer = <<>>
    /\ (dynapcnn_layer # <<>> /\ dcnnl_data # <<>>)
           => \A i \in DOMAIN dcnnl_data :
                 (/\ IsPooling(dcnnl_data[i].layer)
                  /\ KernelOf(dcnnl_data[i].layer) # StrideOf(dcnnl_data[i].layer))
                     => /\ dynapcnn_layer[1].raised # ""
                        /\ dynapcnn_layer[1].conv_layer = <<>>

\* the part of C9 about the helpers of utils.py
C9_HelpersRejectStride ==
    (HelperDone("construct_next_pooling_layer") \/ HelperDone("construct_next_dynapcnn_layer"))
        => \A i \in DOMAIN ChainOfGroup :
              KernelOf(ChainOfGroup[i]) # StrideOf(ChainOfGroup[i])
                  => pool_result[1].out.raised # ""

HasPadding(lyr) == \E j \in DOMAIN lyr.padding : lyr.padding[j] # 0

\* C10: a trailing pooling node with nonzero padding, average or sum pooling,
\* is rejected with an error and its chain is not consolidated: neither helper
\* of utils.py returns for it, and no DynapcnnLayer is built from its group.
C10_PaddingRejected ==
    /\ (HelperDone("construct_next_pooling_layer") \/ HelperDone("construct_next_dynapcnn_layer"))
           => \A i \in DOMAIN ChainOfGroup :
                 HasPadding(ChainOfGroup[i])
                     => /\ pool_result[1].out.raised # ""
                        /\ (pool_result[1].op = "construct_next_pooling_layer")
                               => /\ pool_result[1].out.lyr_pool = <<>>
                                  /\ (\A j \in 1..(i - 1) :
                                         /\ ~HasPadding(ChainOfGroup[j])
                                         /\ KernelOf(ChainOfGroup[j]) = StrideOf(ChainOfGroup[j]))
                                     => pool_result[1].out.raised
                                          = "Padding is not supported for the pooling layers"
                        /\ (pool_result[1].op = "construct_next_dynapcnn_layer")
                               => pool_result[1].out.dynapcnn_layer = <<>>
    /\ (dynapcnn_layer # <<>> /\ dcnnl_data # <<>>)
           => \A i \in DOMAIN dcnnl_data :
                 (IsPooling(dcnnl_data[i].layer) /\ HasPadding(dcnnl_data[i].layer))
                     => /\ dynapcnn_layer[1].raised # ""
                        /\ dynapcnn_layer[1].conv_layer = <<>>

\* C10's case: behind an accepted average pooling, an average pooling of
\* kernel and stride 2 with padding 1 was rejected for its padding
C10_Witness ==
    /\ HelperDone("construct_next_pooling_layer")
    /\ layers = <<AvgPool2d(<<2>>, <<2>>, <<0>>), AvgPool2d(<<2>>, <<2>>, <<1>>)>>
    /\ pool_result[1].out.raised = "Padding is not supported for the pooling layers"
    /\ pool_result[1].out.lyr_pool = <<>>

NonSquare(lyr) == /\ Len(lyr.kernel_size) = 2
                  /\ lyr.kernel_size[1] # lyr.kernel_size[2]

\* C11: a pooling layer with a non-square kernel is rejected before any
\* hardware layer is built: DynapcnnLayer raises for it with no layer built and
\* before any step on the group's convolution (conversion or copy, rescaling,
\* discretization), and pooling consolidation never returns a pooling operator
\* for a chain that holds a non-square kernel.
C11_NonSquareRejectedFirst ==
    /\ (dynapcnn_layer # <<>> /\ dcnnl_data # <<>>)
           => ((\E i \in DOMAIN dcnnl_data : /\ dcnnl_data[i].layer.kind = "SumPool2d"
                                             /\ NonSquare(dcnnl_data[i].layer))
                  => /\ dynapcnn_layer[1].raised # ""
                     /\ dynapcnn_layer[1].conv_layer = <<>>
                     /\ dynapcnn_layer[1].steps = <<>>)
    /\ HelperDone("construct_next_pooling_layer")
           => ((\E i \in DOMAIN ChainOfGroup : NonSquare(ChainOfGroup[i]))
                  => /\ pool_result[1].out.raised # ""
                     /\ pool_result[1].out.lyr_pool = <<>>)

\* the position behind the convolution of a list, and behind the batch
\* normalisation that follows it if there is one
BehindConv(lyrs) == IF Len(lyrs) >= 2 /\ lyrs[2].kind = "BatchNorm2d" THEN 3 ELSE 2

SpikingErrors == {"Convolution must be followed by spiking layer. End of network found.",
                  "Convolution must be followed by spiking layer, found another layer",
                  "Spiking layer not present."}

\* C12: a group whose convolution or linear node is not followed by a spiking
\* node fails with the structural "must be followed by spiking layer" error in
\* every case (a next node of another kind, a convolution and batch
\* normalisation at the end of the network, a convolution that is the very
\* last node), and no layer is built from it.
C12_MissingSpikingLayerError ==
    /\ (/\ HelperDone("construct_next_dynapcnn_layer")
        /\ layers # <<>>
        /\ layers[1].kind \in {"Conv2d", "Linear"}
        /\ \/ BehindConv(layers) > Len(layers)
           \/ layers[BehindConv(layers)].kind # "IAFSqueeze")
           => /\ pool_result[1].out.raised \in SpikingErrors
              /\ pool_result[1].out.dynapcnn_layer = <<>>
    /\ (/\ dynapcnn_layer # <<>> /\ dcnnl_data # <<>>
        /\ \A i \in DOMAIN dcnnl_data :
              dcnnl_data[i].layer.kind \in {"Conv2d", "Linear", "SumPool2d"}
        /\ \E i \in DOMAIN dcnnl_data : dcnnl_data[i].layer.kind \in {"Conv2d", "Linear"})
           => /\ dynapcnn_layer[1].raised \in SpikingErrors
              /\ dynapcnn_layer[1].conv_layer = <<>>

\* the cases of C12 in which the next node exists: another kind of node behind
\* the convolution, or behind a batch normalisation folded into a convolution
\* that has a bias
C12_OtherKindRejected ==
    (/\ HelperDone("construct_next_dynapcnn_layer")
     /\ Len(layers) >= BehindConv(layers)
     /\ layers[1].kind \in {"Conv2d", "Linear"}
     /\ layers[1].bias # <<>>
     /\ layers[BehindConv(layers)].kind # "IAFSqueeze")
        => /\ pool_result[1].out.raised
                = "Convolution must be followed by spiking layer, found another layer"
           /\ pool_result[1].out.dynapcnn_layer = <<>>

\* two consecutive calls of construct_next_dynapcnn_layer built two layers: the
\* upstream one, and the one behind its pooling
TwoLayersBuilt == /\ Len(pool_result) = 2
                  /\ pool_result[2].out.raised = ""

UpstreamConv == pool_result[1].out.dynapcnn_layer[1].conv_layer[1]
DownstreamConv == pool_result[2].out.dynapcnn_layer[1].conv_layer[1]

\* C13 as stated: the rescale factor of a group's consolidated poolings is not
\* applied to the group's own convolution weights but divides the convolution
\* weights of the upstream layer; for two layers built one after the other
\* from a first factor of 1, the weights of the upstream layer are divided by
\* the factor of the downstream group and those of the downstream layer are
\* left undivided.
C13_FactorDividesUpstreamWeights ==
    (TwoLayersBuilt /\ pool_result[1].rescale_factor = 1)
        => /\ UpstreamConv.scale = pool_result[2].out.rescale_factor
           /\ DownstreamConv.scale = 1

\* C13, amended: the rescale factor of a group's consolidated poolings is not
\* applied to the group's own convolution weights (these are divided by the
\* factor handed in); it is returned, and divides the convolution weights of
\* the layer built next, downstream of the pooling.
C13_FactorDividesDownstreamWeights ==
    /\ (/\ HelperDone("construct_next_dynapcnn_layer")
        /\ pool_result[1].out.raised = "")
           => /\ UpstreamConv.scale = pool_result[1].rescale_factor
              /\ pool_result[1].out.rescale_factor = ProductOfAreas(ChainOfGroup)
    /\ TwoLayersBuilt
           => /\ DownstreamConv.scale = pool_result[1].out.rescale_factor
              /\ pool_result[2].rescale_factor = pool_result[1].out.rescale_factor

\* C13's case: a layer built with factor 1 from a group with an average
\* pooling of kernel 2 keeps its weights undivided and returns 4; the layer
\* built next has its weights divided by 4 and returns the 4 of its own pooling
C13_Witness ==
    /\ TwoLayersBuilt
    /\ pool_result[1].rescale_factor = 1
    /\ pool_result[1].out.rescale_factor = 4
    /\ UpstreamConv.scale = 1
    /\ DownstreamConv.scale = 4
    /\ pool_result[2].out.rescale_factor = 4

\* gamma / sqrt(sigma^2) of a channel, gamma being 1 without affine parameters
FoldFactor(bn, ch) ==
    LET gamma == IF bn.affine THEN bn.weight.at[<<ch - 1>>] ELSE 1
    IN  gamma \div (CHOOSE r \in 0..bn.running_var[ch] : r * r = bn.running_var[ch])

\* C14: batch-norm folding works on a fresh copy: after merge_conv_bn the
\* convolution handed in has the weight and bias it had before, and the
\* convolution returned is another object, whose weight is the old weight
\* times gamma / sqrt(sigma^2) of its output channel and whose bias is
\* beta + (old bias - mu) * gamma / sqrt(sigma^2).
C14_FoldingWorksOnCopy ==
    HelperDone("merge_conv_bn")
        => /\ layers[1].weight = pool_result[1].conv.weight
           /\ layers[1].bias = pool_result[1].conv.bias
           /\ pool_result[1].out.raised = ""
                 => /\ pool_result[1].out.is_copy
                    /\ \A idx \in DOMAIN pool_result[1].conv.weight.at :
                          pool_result[1].out.layer.weight.at[idx]
                             = pool_result[1].conv.weight.at[idx]
                               * FoldFactor(pool_result[1].bn, idx[1] + 1)
                    /\ \A ch \in DOMAIN pool_result[1].conv.bias :
                          pool_result[1].out.layer.bias[ch]
                             = (IF pool_result[1].bn.affine
                                THEN pool_result[1].bn.bias[ch] ELSE 0)
                               + (pool_result[1].conv.bias[ch]
                                  - pool_result[1].bn.running_mean[ch])
                                 * FoldFactor(pool_result[1].bn, ch)

\* C14's case: a convolution with bias was folded with an affine batch
\* normalisation, the weights returned differ from the ones handed in
C14_Witness ==
    /\ HelperDone("merge_conv_bn")
    /\ pool_result[1].out.raised = ""
    /\ pool_result[1].bn.affine
    /\ pool_result[1].out.layer.weight # pool_result[1].conv.weight
    /\ layers[1] = pool_result[1].conv

\* C15: folding a batch normalisation into a convolution that has no bias
\* always succeeds, and the convolution returned has a bias computed with the
\* old bias taken as 0: beta - mu * gamma / sqrt(sigma^2).
C15_FoldingWithoutBiasSucceeds ==
    (HelperDone("merge_conv_bn") /\ pool_result[1].conv.bias = <<>>)
        => /\ pool_result[1].out.raised = ""
           /\ pool_result[1].out.layer.kind = "Conv2d"
           /\ \A ch \in 1..pool_result[1].conv.out_channels :
                 pool_result[1].out.layer.bias[ch]
                    = (IF pool_result[1].bn.affine THEN pool_result[1].bn.bias[ch] ELSE 0)
                      - pool_result[1].bn.running_mean[ch]
                        * FoldFactor(pool_result[1].bn, ch)

(***************************************************************************)
(* Further claims about the deployment calls, checked under Spec.          *)
(***************************************************************************)
\* a make_config or to call for a chip with an explicit chip_layers_ordering
ExplicitCall == /\ call.op \in {"make_config", "to"}
                /\ call.device = "chip"
                /\ ~call.chip_layers_ordering.auto

Happened(event) == \E i \in DOMAIN call.events : call.events[i] = event

\* C16: in explicit mode an ordering is accepted only if it has one entry per
\* layer and names no core twice: a call with a list of the wrong length or
\* with a repeated core fails with an error, and no configuration is built
\* from it.
C16_MalformedOrderingRejected ==
    (/\ ExplicitCall
     /\ \/ Len(call.chip_layers_ordering.list) # Len(dynapcnn_layers)
        \/ ~IsInjective(call.chip_layers_ordering.list))
        => /\ ~Succeeded
           /\ call.config = <<>>
           /\ ~Happened("build_config")

ChipCall == call.op \in {"make_config", "to"} /\ call.device = "chip"

\* C17: in explicit mode, mapping fails whenever some layer has more
\* destinations than the fan-out limit, before a configuration is built, and
\* no call that succeeded holds a layer with more destinations than the limit.
C17_FanOutRejectedByMapping ==
    /\ (/\ ExplicitCall
        /\ \E i \in DOMAIN dynapcnn_layers :
              Cardinality(dynapcnn_layers[i].destinations) > MaxFanout)
           => /\ ~Succeeded
              /\ ~Happened("build_config")
    /\ (ExplicitCall /\ Succeeded)
           => \A i \in DOMAIN dynapcnn_layers :
                 Cardinality(dynapcnn_layers[i].destinations) <= MaxFanout

AllAssigned(dl) == /\ \A i \in DOMAIN dl : dl[i].core_idx \in 0..(NumCores - 1)
                   /\ \A i, j \in DOMAIN dl : i # j => dl[i].core_idx # dl[j].core_idx

\* C18: in "auto" mode the search either assigns a core to every layer, each
\* layer a core of its own, or the call fails with the mapping error; it fails
\* whenever the layers outnumber the cores; and a configuration is only built
\* from layers that all have a core assigned.
C18_AutoMappingCompleteOrError ==
    (ChipCall /\ call.chip_layers_ordering.auto)
        => /\ \/ /\ call.outcome = "MappingError"
                 /\ ~Happened("build_config")
                 /\ call.config = <<>>
              \/ /\ call.outcome # "MappingError"
                 /\ Happened("build_config")
                 /\ AllAssigned(dynapcnn_layers)
           /\ Len(dynapcnn_layers) > NumCores => call.outcome = "MappingError"
           /\ Happened("build_config") => AllAssigned(dynapcnn_layers)

\* C18's case: the search failed for a chain of more layers than cores, no
\* configuration was built and no layer has a core
C18_Witness ==
    /\ ChipCall
    /\ call.chip_layers_ordering.auto
    /\ Len(dynapcnn_layers) > NumCores
    /\ \A i \in DOMAIN dynapcnn_layers :
          Cardinality(dynapcnn_layers[i].destinations) <= MaxFanout
    /\ call.outcome = "MappingError"
    /\ call.events = <<"get_valid_mapping">>
    /\ \A i \in DOMAIN dynapcnn_layers : dynapcnn_layers[i].core_idx = Unset

\* C18's other case: the search placed every layer of a network of two layers
C18_WitnessAssigned ==
    /\ ChipCall
    /\ call.chip_layers_ordering.auto
    /\ Succeeded
    /\ Len(dynapcnn_layers) = 2
    /\ AllAssigned(dynapcnn_layers)

\* the layers without destinations
SinkLayers == {i \in DOMAIN dynapcnn_layers : dynapcnn_layers[i].destinations = {}}

\* C19: when monitor_layers is None, the monitored cores of the configuration
\* are exactly the cores of the network's sink, the layer without further
\* destinations, which is the last layer of the model.
C19_DefaultMonitorsSink ==
    (ChipCall /\ Succeeded /\ call.monitor_layers.kind = "None")
        => /\ Range(call.config[1].monitored)
                = {dynapcnn_layers[i].core_idx : i \in SinkLayers}
           /\ dynapcnn_layers[Len(dynapcnn_layers)].core_idx
                \in Range(call.config[1].monitored)
           /\ ~call.config[1].monitor_dvs

\* the part of C19 about networks with one sink
C19_SingleSinkMonitored ==
    (ChipCall /\ Succeeded /\ call.monitor_layers.kind = "None"
     /\ Cardinality(SinkLayers) = 1)
        => call.config[1].monitored
              = <<dynapcnn_layers[Len(dynapcnn_layers)].core_idx>>

\* C20: when monitor_layers is an explicit list, the monitored cores of the
\* configuration are exactly the cores of the layers the list names, and the
\* DVS is monitored exactly when "dvs" is in the list.
C20_ExplicitMonitorList ==
    (ChipCall /\ Succeeded /\ call.monitor_layers.kind = "list")
        => /\ Range(call.config[1].monitored)
                = {dynapcnn_layers[call.monitor_layers.idx[k] + 1].core_idx :
                      k \in DOMAIN call.monitor_layers.idx}
           /\ call.config[1].monitor_dvs = call.monitor_layers.dvs

\* the part of C20 about the DVS
C20_DvsMonitoredWhenNamed ==
    (ChipCall /\ Succeeded /\ call.monitor_layers.kind = "list")
        => call.config[1].monitor_dvs = call.monitor_layers.dvs

\* C21: when monitor_layers is "all", the monitored cores of the configuration
\* are exactly the cores assigned to the layers that are not the DVS layer:
\* every such core is monitored, once, and the DVS is not monitored.
C21_AllMonitorsEveryCore ==
    (ChipCall /\ Succeeded /\ call.monitor_layers.kind = "all")
        => /\ Range(call.config[1].monitored)
                = {dynapcnn_layers[i].core_idx :
                      i \in {j \in DOMAIN dynapcnn_layers : ~dynapcnn_layers[j].dvs}}
           /\ Len(call.config[1].monitored)
                = Cardinality({j \in DOMAIN dynapcnn_layers : ~dynapcnn_layers[j].dvs})
           /\ \A i \in DOMAIN dynapcnn_layers :
                 ~dynapcnn_layers[i].dvs
                     => dynapcnn_layers[i].core_idx \in Range(call.config[1].cores)
           /\ ~call.config[1].monitor_dvs

\* C21's case: a call with "all" succeeded for a network of three layers, and
\* the three cores are monitored
C21_Witness ==
    /\ ChipCall
    /\ Succeeded
    /\ call.monitor_layers.kind = "all"
    /\ Len(dynapcnn_layers) = 3
    /\ Cardinality(Range(call.config[1].monitored)) = 3

(***************************************************************************)
(* The traced graph and get_sinabs_edges_and_modules, checked under        *)
(* SpecGraph. The nodes of the traced graph are named 0, 1, ... in the     *)
(* order of the forward pass; an edge leads from a node to a later node.   *)
(***************************************************************************)
MaxNodes == 4

\* DEFAULT_IGNORED_LAYER_TYPES, and the kind of a node where branches are added
IgnoredKinds == {"Flatten"}
MergeKinds == {"Merge"}
NodeKinds == {"Conv2d", "IAFSqueeze"} \cup IgnoredKinds \cup MergeKinds

\* graph_tracer.modules_map[name]: the module of a node, known by its kind and
\* by the name it was traced under
Module(kind, name) == [kind |-> kind, name |-> name]

\* a traced graph of n nodes with the given kinds and edges
TracedGraph(n, kinds, edges) ==
    [modules_map |-> [i \in 0..(n - 1) |-> Module(kinds[i + 1], i)], edges |-> edges]

\* the pairs an edge of a graph of n nodes can be
ForwardPairs(n) == {ed \in (0..(n - 1)) \X (0..(n - 1)) : ed[1] < ed[2]}

\* node x taken out of the edges: each of its producers feeds each of its
\* consumers
Bypass(edges, x) ==
    {ed \in edges : ed[1] # x /\ ed[2] # x}
    \cup {<<ed1[1], ed2[2]>> : ed1 \in {ed \in edges : ed[2] = x},
                              ed2 \in {ed \in edges : ed[1] = x}}

RECURSIVE BypassAll(_, _)
BypassAll(edges, xs) ==
    IF xs = {} THEN edges
    ELSE LET x == CHOOSE y \in xs : TRUE
         IN  BypassAll(Bypass(edges, x), xs \ {x})

\* graph_tracer.remove_ignored_nodes(DEFAULT_IGNORED_LAYER_TYPES): the edges
\* without the ignored nodes, and the new name of every node that is kept, the
\* kept nodes being numbered anew in their order
remove_ignored_nodes(tracer, ignored) ==
    LET ign == {i \in DOMAIN tracer.modules_map : tracer.modules_map[i].kind \in ignored}
        kept == (DOMAIN tracer.modules_map) \ ign
        remapped_nodes == [i \in kept |-> Cardinality({j \in kept : j < i})]
    IN  [edges |-> {<<remapped_nodes[ed[1]], remapped_nodes[ed[2]]>> :
                       ed \in BypassAll(tracer.edges, ign)},
         remapped_nodes |-> remapped_nodes]

\* merge_handler(sinabs_edges, sinabs_modules_map): the producers of a node
\* where branches are added feed its consumers directly
merge_handler(edges, sinabs_modules_map) ==
    BypassAll(edges, {i \in DOMAIN sinabs_modules_map :
                         sinabs_modules_map[i].kind \in MergeKinds})

\* the module map keyed by the old names
ModulesMapNotRekeyed(remapped_nodes, modules_map) ==
    [new_name \in Range(remapped_nodes) |-> modules_map[new_name]]

\* lines 365-367: sinabs_modules_map[new_name] = modules_map[orig_name] for
\* every item of remapped_nodes
ModulesMapRekeyed(remapped_nodes, modules_map) ==
    [new_name \in Range(remapped_nodes) |->
        modules_map[CHOOSE orig_name \in DOMAIN remapped_nodes :
                        /\ remapped_nodes[orig_name] = new_name
                        /\ \A other \in DOMAIN remapped_nodes :
                              remapped_nodes[other] = new_name => other <= orig_name]]

\* get_sinabs_edges_and_modules, lines 348-371
get_sinabs_edges_and_modules(tracer) ==
    LET removed == remove_ignored_nodes(tracer, IgnoredKinds)
        sinabs_modules_map == ModulesMapRekeyed(removed.remapped_nodes, tracer.modules_map)
    IN  [sinabs_edges |-> removed.edges,
         remapped_nodes |-> removed.remapped_nodes,
         sinabs_modules_map |-> sinabs_modules_map,
         edges_without_merge |-> merge_handler(removed.edges, sinabs_modules_map)]

\* the traced graphs: up to MaxNodes nodes, every node but the first fed by an
\* earlier node
GraphArgs ==
    /\ \E n \in 1..MaxNodes :
         \E kinds \in [1..n -> NodeKinds], edges \in SUBSET ForwardPairs(n) :
            /\ \A b \in 1..(n - 1) : \E ed \in edges : ed[2] = b
            /\ graph_tracer = TracedGraph(n, kinds, edges)
    /\ sinabs_graph = <<>>

GetSinabsEdgesAndModules ==
    /\ sinabs_graph = <<>>
    /\ sinabs_graph' = <<get_sinabs_edges_and_modules(graph_tracer)>>
    /\ UNCHANGED <<graph_tracer, deploy_vars, layer_vars, pool_vars, shape_vars, spike_vars>>

InitGraph == GraphArgs /\ DeployIdle /\ LayerIdle /\ PoolIdle /\ ShapeIdle /\ SpikeIdle

SpecGraph == InitGraph /\ [][GetSinabsEdgesAndModules]_vars

TypeOKGraph == sinabs_graph = <<>> \/ Len(sinabs_graph) = 1

Ignored(i) == graph_tracer.modules_map[i].kind \in IgnoredKinds

\* a path of the traced graph from a to b whose inner nodes are all ignored
RECURSIVE ThroughIgnored(_, _)
ThroughIgnored(a, b) ==
    \/ <<a, b>> \in graph_tracer.edges
    \/ \E x \in DOMAIN graph_tracer.modules_map :
          /\ Ignored(x)
          /\ <<a, x>> \in graph_tracer.edges
          /\ ThroughIgnored(x, b)

\* C22: after the removal of the ignored nodes no edge has an ignored node as
\* an endpoint; for every ignored node X and edges (A, X), (X, B) the edge
\* (A, B) is present, also through chains of ignored nodes, under the new names
\* of A and B; and the module map is keyed by the new names, each new name
\* holding the module its node had under its original name.
C22_IgnoredNodesBypassed ==
    sinabs_graph # <<>>
        => LET r == sinabs_graph[1]
               kept == {i \in DOMAIN graph_tracer.modules_map : ~Ignored(i)}
           IN  /\ \A ed \in r.sinabs_edges :
                     /\ ed[1] \in DOMAIN r.sinabs_modules_map
                     /\ ed[2] \in DOMAIN r.sinabs_modules_map
                     /\ r.sinabs_modules_map[ed[1]].kind \notin IgnoredKinds
                     /\ r.sinabs_modules_map[ed[2]].kind \notin IgnoredKinds
               /\ \A a, b \in kept :
                     ThroughIgnored(a, b)
                         <=> <<r.remapped_nodes[a], r.remapped_nodes[b]>> \in r.sinabs_edges
               /\ DOMAIN r.remapped_nodes = kept
               /\ DOMAIN r.sinabs_modules_map = {r.remapped_nodes[i] : i \in kept}
               /\ \A i \in kept :
                     r.sinabs_modules_map[r.remapped_nodes[i]] = graph_tracer.modules_map[i]

\* C22's case: two ignored nodes in a row between a convolution and a spiking
\* node: the convolution feeds the spiking node, which is known under its new
\* name 1 and holds the module traced as node 3
C22_Witness ==
    /\ sinabs_graph # <<>>
    /\ DOMAIN graph_tracer.modules_map = 0..3
    /\ graph_tracer.modules_map[0].kind = "Conv2d"
    /\ Ignored(1) /\ Ignored(2)
    /\ graph_tracer.modules_map[3].kind = "IAFSqueeze"
    /\ graph_tracer.edges = {<<0, 1>>, <<1, 2>>, <<2, 3>>}
    /\ sinabs_graph[1].sinabs_edges = {<<0, 1>>}
    /\ sinabs_graph[1].sinabs_modules_map[1] = Module("IAFSqueeze", 3)

\* C22's other case: an ignored node with two producers, both feeding its
\* consumer afterwards
C22_WitnessCrossProduct ==
    /\ sinabs_graph # <<>>
    /\ DOMAIN graph_tracer.modules_map = 0..3
    /\ Ignored(2)
    /\ graph_tracer.edges = {<<0, 1>>, <<0, 2>>, <<1, 2>>, <<2, 3>>}
    /\ sinabs_graph[1].sinabs_edges = {<<0, 1>>, <<0, 2>>, <<1, 2>>}


(***************************************************************************)
(* Claims about repeated deployment calls, checked under Spec.             *)
(***************************************************************************)
\* the layers as __init__ compiled them: no core assigned
AsCompiled(dl) == [i \in DOMAIN dl |-> [dl[i] EXCEPT !.core_idx = Unset]]

\* what a call with the options of the last call gives on the network as
\* compiled, for each mapping the automatic search may return
FreshResults ==
    {make_config(_make_config(AsCompiled(dynapcnn_layers), input_shape,
                              call.chip_layers_ordering, call.monitor_layers,
                              call.config_modifier, m))
     : m \in MappingChoices(AsCompiled(dynapcnn_layers), call.chip_layers_ordering)}

\* C24: each map/assemble cycle is stateless: what a make_config or to call
\* gives depends on its arguments and the compiled layers only, so it is a
\* result the same call gives on the network as compiled, whatever calls were
\* made before (an earlier "auto" call has no influence on a later explicit call).
C24_CallsAreStateless ==
    ChipCall => \E f \in FreshResults :
                    /\ f.config = call.config
                    /\ f.outcome = IF call.outcome = "deployed" THEN "returned"
                                   ELSE call.outcome


(***************************************************************************)
(* layers/functional/threshold.py: ThresholdSubtract.forward, the number   *)
(* of spikes a neuron emits for its accumulated input. The values are      *)
(* whole numbers; the quotient data / threshold is not.                    *)
(***************************************************************************)
MaxData == 9
MaxThreshold == 4
\* the weights and the threshold of the single-neuron test
TestThreshold == 127

Abs(a) == IF a < 0 THEN 0 - a ELSE a

\* torch.div(a, b, rounding_mode="trunc"): the quotient rounded towards zero
TruncDiv(a, b) ==
    LET q == Abs(a) \div Abs(b)
    IN  IF (a < 0) # (b < 0) THEN 0 - q ELSE q

\* forward without the mask (data > 0)
ForwardUnmasked(data, threshold) == TruncDiv(data, threshold)

\* ThresholdSubtract.forward(ctx, data, threshold), line 18
ThresholdSubtractForward(data, threshold) ==
    (IF data > 0 THEN 1 ELSE 0) * TruncDiv(data, threshold)

\* the accumulated inputs and the thresholds tried: small values of either
\* sign against small positive thresholds, and the values of the test
SpikeArgs ==
    /\ spike_query \in {<<[data |-> v, threshold |-> t]>> :
                           v \in ((0 - MaxData)..MaxData) \cup {TestThreshold},
                           t \in (1..MaxThreshold) \cup {TestThreshold}}
    /\ spike_count = <<>>

Forward ==
    /\ spike_count = <<>>
    /\ spike_count' = <<ThresholdSubtractForward(spike_query[1].data,
                                                 spike_query[1].threshold)>>
    /\ UNCHANGED <<spike_query, deploy_vars, layer_vars, pool_vars, shape_vars, graph_vars>>

InitSpike == SpikeArgs /\ DeployIdle /\ LayerIdle /\ PoolIdle /\ ShapeIdle /\ GraphIdle

SpecSpike == InitSpike /\ [][Forward]_vars

\* C25: a spiking neuron with positive threshold T and accumulated input v
\* emits trunc(v / T) spikes when v > 0 and none otherwise: the count n is the
\* whole number with n * T <= v < (n + 1) * T. An input equal to the threshold
\* (weights summing to 127, threshold 127, one event) gives exactly one spike.
C25_SpikeCountIsTruncatedQuotient ==
    spike_count # <<>> =>
        LET v == spike_query[1].data
            T == spike_query[1].threshold
            n == spike_count[1]
        IN  /\ v > 0 => n >= 0 /\ n * T <= v /\ v < (n + 1) * T
            /\ v <= 0 => n = 0
            /\ v = T => n = 1

\* C25's case: the input of the test, 127 against a threshold of 127, has
\* given one spike
C25_Witness ==
    /\ spike_count = <<1>>
    /\ spike_query[1].data = TestThreshold
    /\ spike_query[1].threshold = TestThreshold

\* an input that is no multiple of the threshold has been rounded down
C25_WitnessTruncated ==
    /\ spike_count = <<2>>
    /\ spike_query[1].data = 7
    /\ spike_query[1].threshold = 3


(***************************************************************************)
(* Claims about the index construct_next_pooling_layer returns, checked    *)
(* under SpecPool.                                                         *)
(***************************************************************************)
\* C26: construct_next_pooling_layer returns as idx_next the index (from 0) of
\* the first object that is not a pooling layer, so that the caller resumes at
\* the first layer not consumed; when every object is a pooling layer the
\* index returned points at none of the pooling layers that were consolidated.
C26_IdxNextIsFirstUnconsumed ==
    Consolidated =>
        LET chain == LeadingChain(layers)
            idx_next == pool_result[1].out.idx_next
        IN  IF Len(chain) < Len(layers)
            THEN idx_next = Len(chain)
            ELSE idx_next \notin {i - 1 : i \in DOMAIN layers}


(***************************************************************************)
(* Claims about what the constructor of DynapcnnLayer leaves of its        *)
(* argument dcnnl_data, checked under SpecLayer.                           *)
(***************************************************************************)
\* the constructor has run, to its end or to an exception
Constructed == dynapcnn_layer # <<>>

\* C27: building a DynapcnnLayer never modifies the source modules: the
\* convolution or linear layer with its weight and bias, the spiking layer with
\* its parameters and membrane state, and the pooling layers of every node are
\* after the call what they were before it, for a Linear and for a Conv2d first
\* node, every rescale_weights and every discretize.
C27_SourceModulesUnchanged ==
    Constructed =>
        /\ DOMAIN dcnnl_data = DOMAIN build_args.dcnnl_data
        /\ \A i \in DOMAIN dcnnl_data :
              dcnnl_data[i].layer = build_args.dcnnl_data[i].layer

\* C27's case: a layer was built from a Conv2d with an initialised spiking
\* layer and a pooling layer, rescaled and discretized: the layer's own
\* convolution and spiking layer differ from the modules they were copied from
C27_Witness ==
    /\ Built
    /\ build_args.discretize
    /\ build_args.rescale_weights # 1
    /\ dcnnl_data[1].layer.kind = "Conv2d"
    /\ dcnnl_data[2].layer.v_mem # <<>>
    /\ dynapcnn_layer[1].pool_layer # <<>>
    /\ dynapcnn_layer[1].conv_layer[1] # dcnnl_data[1].layer
    /\ dynapcnn_layer[1].spk_layer[1].v_mem # dcnnl_data[2].layer.v_mem

\* the same for a Linear first node
C27_WitnessLinear ==
    /\ Built
    /\ build_args.discretize
    /\ build_args.rescale_weights # 1
    /\ dcnnl_data[1].layer.kind = "Linear"
    /\ dynapcnn_layer[1].conv_layer[1].kind = "Conv2d"
    /\ dynapcnn_layer[1].pool_layer # <<>>

\* C28: a construction that fails leaves the metadata of the nodes as it was:
\* whenever the constructor raises (invalid node, missing convolution or
\* spiking node, shape mismatch, non-square pooling kernel) the input_shape and
\* output_shape of every node are what they were before the call.
C28_FailedBuildKeepsShapes ==
    (Constructed /\ dynapcnn_layer[1].raised # "") =>
        \A i \in DOMAIN dcnnl_data :
            /\ dcnnl_data[i].input_shape = build_args.dcnnl_data[i].input_shape
            /\ dcnnl_data[i].output_shape = build_args.dcnnl_data[i].output_shape


(***************************************************************************)
(* Claims about the order of the steps of _make_config, checked under Spec.*)
(***************************************************************************)
\* the steps of _make_config in the order claimed
MakeConfigSteps == <<"get_valid_mapping", "build_config", "merge", "monitor_layers",
                     "config_modifier", "validate_configuration">>

\* the events of the last call that are steps of _make_config
StepsTaken == SelectSeq(call.events, LAMBDA e : e \in Range(MakeConfigSteps))

\* C29: the steps of _make_config occur in the order core mapping,
\* configuration build, DVS-merge flag, monitor selection, user
\* config_modifier, validation: none is taken twice or after a later one,
\* validation is the last, and it is applied to the object the config_modifier
\* returned, so that a modifier that breaks the configuration makes the call
\* fail and the configuration handed out is the modifier's.
C29_StepsInOrder ==
    (ChipCall /\ Happened("build_config")) =>
        /\ \A i, j \in DOMAIN MakeConfigSteps :
              i <= j => ~Before(StepsTaken, MakeConfigSteps[j], MakeConfigSteps[i])
        /\ \A e \in {"build_config", "merge", "monitor_layers", "validate_configuration"} :
              Happened(e)
        /\ Happened("get_valid_mapping") <=> call.chip_layers_ordering.auto
        /\ Happened("config_modifier") <=> call.config_modifier # "None"
        /\ Last(StepsTaken) = "validate_configuration"
        /\ call.config_modifier = "break" => ~Succeeded
        /\ (call.config_modifier = "new" /\ Succeeded)
              => call.config[1].id = 2 /\ call.validated = call.config

\* C29's case: a call in "auto" mode with a config_modifier has succeeded, all
\* six steps were taken, and the configuration handed out is the object the
\* modifier returned
C29_Witness ==
    /\ ChipCall
    /\ Succeeded
    /\ StepsTaken = MakeConfigSteps
    /\ call.config_modifier = "new"
    /\ call.config[1].id = 2


(***************************************************************************)
(* Claims about the order of the statements of the constructor of          *)
(* DynapcnnLayer, checked under SpecLayer.                                 *)
(***************************************************************************)
\* the convolution or linear module the layer was built from
SourceConv == build_args.dcnnl_data[ScanNodes(build_args.dcnnl_data).conv_node_id].layer

\* C30: inside the builder the steps are ordered copy (or conversion), rescale,
\* discretization. The weights are divided by rescale_weights exactly when it
\* is not 1, and before the discretization, which works on the rescaled
\* weights; the discretization is applied exactly when discretize is true;
\* with discretize false and rescale_weights 1 the weights of the layer are
\* those of its source (reshaped for a Linear).
C30_CopyRescaleDiscretize ==
    Built =>
        LET conv == dynapcnn_layer[1].conv_layer[1]
            steps == dynapcnn_layer[1].steps
            shape == <<conv.out_channels, conv.in_channels,
                       conv.kernel_size[1], conv.kernel_size[2]>>
        IN  /\ Head(steps) = (IF SourceConv.kind = "Linear" THEN "convert" ELSE "copy")
            /\ \A k \in 2..Len(steps) : steps[k] \notin {"convert", "copy"}
            /\ ~Before(steps, "discretize", "rescale")
            /\ ~Before(steps, "rescale", "rescale")
            /\ ~Before(steps, "discretize", "discretize")
            /\ (\E k \in DOMAIN steps : steps[k] = "rescale")
                   <=> build_args.rescale_weights # 1
            /\ (\E k \in DOMAIN steps : steps[k] = "discretize") <=> build_args.discretize
            /\ conv.scale = SourceConv.scale * build_args.rescale_weights
            /\ conv.discretized <=> build_args.discretize
            /\ conv.discretized => conv.discretized_at = conv.scale
            /\ dynapcnn_layer[1].spk_layer[1].discretized <=> build_args.discretize
            /\ conv.weight = (IF SourceConv.kind = "Linear"
                              THEN Reshape(SourceConv.weight, shape)
                              ELSE SourceConv.weight)
            /\ (~build_args.discretize /\ build_args.rescale_weights = 1)
                   => conv.scale = SourceConv.scale /\ ~conv.discretized

\* C30's case: a layer was built with rescale_weights other than 1 and with
\* discretize, and the discretization saw the weights already divided
C30_Witness ==
    /\ Built
    /\ build_args.discretize
    /\ build_args.rescale_weights = 4
    /\ dynapcnn_layer[1].steps = <<"copy", "rescale", "discretize">>
    /\ dynapcnn_layer[1].conv_layer[1].discretized_at = 4

\* a layer built without rescaling and without discretization from a Linear
C30_WitnessPlain ==
    /\ Built
    /\ ~build_args.discretize
    /\ build_args.rescale_weights = 1
    /\ dynapcnn_layer[1].steps = <<"convert">>
    /\ dynapcnn_layer[1].conv_layer[1].weight.shape # SourceConv.weight.shape

====
